---- MODULE Spec2Model ----
(***************************************************************************)
(* Model of infractl's deployment pipeline: the in-memory DeployQueue      *)
(* (src/deploy/queue.rs), the single deployment worker and its trigger     *)
(* fan-out (src/deploy/mod.rs) and the executor's per-job state machine    *)
(* (src/deploy/executor.rs); and of its admission pipeline: the layer      *)
(* stack of create_router (src/server/mod.rs), the middleware functions    *)
(* and the RateLimiter (src/server/middleware.rs), the JwtManager          *)
(* (src/server/auth.rs) and the webhook handlers                           *)
(* (src/server/routes/webhook.rs).                                         *)
(*                                                                         *)
(* Every critical section of the queue or of the rate limiter (one         *)
(* acquisition of a lock) is one atomic step; an await on a subprocess or  *)
(* on a lock is a scheduling point between steps.                          *)
(*                                                                         *)
(* Five specifications share the actions:                                  *)
(*   Spec          the program as wired: the worker task and the webhook   *)
(*                 handler that enqueues jobs;                             *)
(*   SpecCancel    Spec plus a handler that calls DeployQueue::cancel;     *)
(*   SpecQueue     the DeployQueue alone under arbitrary concurrent        *)
(*                 callers of enqueue, next_job, update_status and cancel; *)
(*   SpecAdmission two concurrent requests through the layer stack to the  *)
(*                 health, deploy and shutdown handlers;                   *)
(*   SpecLimiter   the RateLimiter alone under concurrent callers of       *)
(*                 check while the clock advances.                         *)
(***************************************************************************)
EXTENDS Integers, Sequences, FiniteSets, TLC

VARIABLES
    deployments,  \* Arc<Vec<DeploymentConfig>>: the immutable configuration
    jobs,         \* DeployQueue.jobs: VecDeque<DeployJob>
    history,      \* DeployQueue.history: Vec<DeployJob>
    histLock,     \* holder of the history RwLock's write guard, or "free"
    nextId,       \* number of DeployJob::new calls so far, plus one
    call,         \* per task: the update_status call in progress
    ret,          \* per task: the snapshot its latest next_job call returned (NoJob = None)
    wpc,          \* the worker's position in start_worker's loop
    ex,           \* the executor's locals while DeployExecutor::execute runs
    result,       \* the worker's `result` (DeployResult), NoResult before
    trigIdx,      \* process_triggers: index of the trigger being processed
    startLog,     \* history variable: ids in the order next_job started them
    doneLog,      \* history variable: ids in the order update_status made them terminal
    fanout,       \* history variable: ids of the children enqueued for the worker's current job
    config,       \* Config: server.isolation_mode and the webhook endpoints
    now,          \* the clock (Utc::now / Instant::now), in ticks
    limiter,      \* RateLimiter.requests: HashMap<IpAddr, Vec<Instant>>
    req,          \* per request: its inputs and its position in the layer stack
    chk,          \* per caller: the RateLimiter::check call in progress
    suspicious,   \* the events log_suspicious_request has emitted
    admitted,     \* history variable: the checks RateLimiter::check accepted
    proc,         \* the server process: "serving", "draining" or "exited"
    store,        \* Database: the clock and the tables metrics_raw and metrics_hourly
    sync,         \* ConfigSync: the config file, the backups and the sync call in progress
    upd,          \* Updater: UpdaterState, the executable on disk and the call in progress
    fetch,        \* GitDeploy::fetch_files: the disk and the call in progress
    script,       \* ScriptRunner::run_command: the call in progress and the processes spawned
    loader,       \* config::load: the files on disk and the load in progress
    mapped,       \* parse_file_mappings: its argument and what it returned
    view,         \* a reading handler (get_queue_status, get_job_status): the call in progress
    chain         \* the worker's loop by deployment name: the jobs waiting and the one running

\* the requests in flight: two connections
Requests == {1, 2}

\* the state of the admission pipeline
admission == <<config, now, limiter, req, chk, suspicious, admitted>>

\* the state of the deployment pipeline
pipeline == <<deployments, jobs, history, histLock, nextId, call, ret, wpc, ex,
              result, trigIdx, startLog, doneLog, fanout>>

\* the state of the process and of its background services
services == <<proc, store, sync, upd, fetch, script, loader, mapped, view, chain>>

\* the services but one
but_proc == <<store, sync, upd, fetch, script, loader, mapped, view, chain>>
but_store == <<proc, sync, upd, fetch, script, loader, mapped, view, chain>>
but_sync == <<proc, store, upd, fetch, script, loader, mapped, view, chain>>
but_upd == <<proc, store, sync, fetch, script, loader, mapped, view, chain>>
but_fetch == <<proc, store, sync, upd, script, loader, mapped, view, chain>>
but_script == <<proc, store, sync, upd, fetch, loader, mapped, view, chain>>
but_loader == <<proc, store, sync, upd, fetch, script, mapped, view, chain>>
but_mapped == <<proc, store, sync, upd, fetch, script, loader, view, chain>>
but_view == <<proc, store, sync, upd, fetch, script, loader, mapped, chain>>
but_chain == <<proc, store, sync, upd, fetch, script, loader, mapped, view>>

vars == <<pipeline, admission, services>>

----------------------------------------------------------------------------
(* Bounds *)

\* at most this many DeployJob::new calls in one behaviour
MaxJobs == 3

\* the clock stops after this many ticks
MaxTime == 2

\* RateLimiter::new(max_requests, window_secs); the program's default is
\* new(100, 60), here scaled to the clock
max_requests == 1
window == 2

\* DeployQueue::new(max_history); the program runs with 100
max_history == 2

\* the tasks that call the queue: the worker; in SpecQueue two clients
\* with update_status calls in flight and one that calls next_job
Worker  == "worker"
Clients == {"c1", "c2"}
Poller  == "c3"
Tasks   == {Worker, Poller} \cup Clients

----------------------------------------------------------------------------
(* Sequence helpers (VecDeque / Vec / iterator operations) *)

\* iter().position(p): the first index whose element satisfies p, 0 for None
Position(s, P(_)) ==
    IF \E i \in 1..Len(s) : P(s[i])
    THEN CHOOSE i \in 1..Len(s) : P(s[i]) /\ \A k \in 1..(i - 1) : ~P(s[k])
    ELSE 0

\* the last index whose element satisfies p, 0 for None
LastPosition(s, P(_)) ==
    IF \E i \in 1..Len(s) : P(s[i])
    THEN CHOOSE i \in 1..Len(s) : P(s[i]) /\ \A k \in (i + 1)..Len(s) : ~P(s[k])
    ELSE 0

\* VecDeque::remove(pos): the sequence without its pos-th element
RemoveAt(s, pos) == SubSeq(s, 1, pos - 1) \o SubSeq(s, pos + 1, Len(s))

\* VecDeque::push_front
PushFront(s, e) == <<e>> \o s

\* VecDeque::push_back / Vec::push
PushBack(s, e) == Append(s, e)

\* VecDeque::retain(keep)
Retain(s, Keep(_)) == SelectSeq(s, Keep)

\* the last n elements of s (all of s when it is shorter)
LastN(s, n) == IF Len(s) <= n THEN s ELSE SubSeq(s, Len(s) - n + 1, Len(s))

\* s is a prefix of t
IsPrefix(s, t) == Len(s) <= Len(t) /\ SubSeq(t, 1, Len(s)) = s

Range(s) == {s[i] : i \in 1..Len(s)}

----------------------------------------------------------------------------
(* Configuration: DeploymentConfig records *)

\* TriggerConfig::as_vec / CommandList::as_vec: the lists are kept in
\* their as_vec form; a file mapping string is a sequence of characters.
DeploymentConfig(name, ty, path, repo, pre, post, gitFiles, trig, cof, shutdown) ==
    [name |-> name, deploy_type |-> ty, path |-> path, repo |-> repo,
     pre_deploy |-> pre, post_deploy |-> post, git_files |-> gitFiles,
     trigger |-> trig, continue_on_failure |-> cof, shutdown |-> shutdown]

\* the deployments a trigger list may name; "X" is configured nowhere
Missing == "X"

\* variants of the pipeline's parent deployment "P"
ParentVariants ==
    { DeploymentConfig("P", "git_pull", TRUE, TRUE, <<"p1">>, <<"q1">>,
                       <<<<"f", ":", "t">>>>, <<"A", "B">>, FALSE, <<>>),
      DeploymentConfig("P", "git_pull", TRUE, TRUE, <<>>, <<"q1", "q2">>,
                       <<>>, <<"A", Missing, "B">>, FALSE, <<>>),
      DeploymentConfig("P", "git_pull", TRUE, TRUE, <<"p1", "p2">>, <<>>,
                       <<>>, <<"A", Missing, "B">>, TRUE, <<>>),
      DeploymentConfig("P", "custom_script", FALSE, TRUE, <<>>, <<"q1">>,
                       <<<<"f", ":", "t">>>>, <<Missing, "A">>, FALSE, <<>>),
      DeploymentConfig("P", "docker_pull", TRUE, FALSE, <<"p1">>, <<"q1">>,
                       <<<<"f", ":", "t">>>>, <<"B">>, FALSE, <<>>),
      DeploymentConfig("P", "docker_pull", TRUE, TRUE, <<>>, <<>>,
                       <<<<"f", ":", "t">>, <<"f", "t">>>>, <<"B", "A">>, TRUE, <<>>) }

ChildA == DeploymentConfig("A", "custom_script", FALSE, FALSE, <<>>, <<"q1">>,
                           <<>>, <<>>, FALSE, <<"s1", "s2">>)
ChildB == DeploymentConfig("B", "docker_pull", TRUE, FALSE, <<"p1">>, <<>>,
                           <<>>, <<>>, FALSE, <<>>)

NoDeployment == [name |-> "none"]

\* deployments.iter().find(|d| d.name == name)
FindDeployment(ds, name) ==
    LET pos == Position(ds, LAMBDA d : d.name = name)
    IN IF pos = 0 THEN NoDeployment ELSE ds[pos]

DeploymentNames == {"P", "A", "B"}

----------------------------------------------------------------------------
(* DeployJob and JobStatus *)

JobStatus == {"pending", "running", "completed", "failed", "cancelled"}

\* DeployJob::new: a fresh id, status Pending, no started_at / completed_at.
\* The uuid is modelled by the creation counter; a job's config is the
\* deployment of its deployment_name.
DeployJob_new(id, deployment_name, trigger_source) ==
    [id |-> id, deployment_name |-> deployment_name, status |-> "pending",
     started_at |-> FALSE, completed_at |-> FALSE,
     trigger_source |-> trigger_source]

\* trigger_source: Some("manual") from a webhook without provider headers,
\* Some(format!("trigger:{}", parent.deployment_name)) from the fan-out
ManualSource == [kind |-> "manual", parent |-> "none"]
TriggerSource(parent_name) == [kind |-> "trigger", parent |-> parent_name]

\* matches!(status, Completed | Failed | Cancelled)
IsTerminal(status) == status \in {"completed", "failed", "cancelled"}

----------------------------------------------------------------------------
(* DeployQueue *)

\* Option<DeployJob>::None
NoJob == [id |-> 0]

IdleCall == [pc |-> "idle", job_id |-> 0, completed_job |-> NoJob]

\* enqueue: jobs.push_back(job)
enqueue_front(q, job) == PushFront(q, job)
enqueue(q, job) == PushBack(q, job)

\* next_job's search: jobs.iter().position(|j| j.status == Pending)
FirstPendingLast(q) == LastPosition(q, LAMBDA j : j.status = "pending")
FirstUnstarted(q) == Position(q, LAMBDA j : j.status # "running")
FirstPending(q) == Position(q, LAMBDA j : j.status = "pending")

\* next_job's update of the deque: remove(pos), mark running, push_front
StartAt(q, pos) ==
    PushFront(RemoveAt(q, pos),
              [q[pos] EXCEPT !.status = "running", !.started_at = TRUE])

\* next_job, one critical section under the jobs write lock
next_job(t) ==
    LET pos == FirstPending(jobs)
    IN /\ IF pos # 0
          THEN /\ jobs' = StartAt(jobs, pos)
               /\ ret' = [ret EXCEPT ![t] = StartAt(jobs, pos)[1]]
               /\ startLog' = Append(startLog, jobs[pos].id)
          ELSE /\ ret' = [ret EXCEPT ![t] = NoJob]
               /\ UNCHANGED <<jobs, startLog>>
       /\ UNCHANGED <<history, histLock, nextId, call>>

\* update_status, first critical section (jobs write lock): find the job,
\* write the status; for a terminal status stamp completed_at, clone the
\* job and drop the lock
\* update_status removing the job from the live queue in its first critical
\* section, before the history has it
update_status_begin_remove(t, job_id, status) ==
    LET pos == Position(jobs, LAMBDA j : j.id = job_id)
    IN /\ call[t].pc = "idle"
       /\ IF pos = 0
          THEN UNCHANGED <<jobs, call>>
          ELSE IF IsTerminal(status)
               THEN LET job == [jobs[pos] EXCEPT !.status = status,
                                                 !.completed_at = TRUE]
                    IN /\ jobs' = RemoveAt(jobs, pos)
                       /\ call' = [call EXCEPT ![t] =
                                     [pc |-> "history", job_id |-> job_id,
                                      completed_job |-> job]]
               ELSE /\ jobs' = [jobs EXCEPT ![pos].status = status]
                    /\ UNCHANGED call
       /\ UNCHANGED <<history, histLock, nextId, ret, startLog>>

update_status_begin(t, job_id, status) ==
    LET pos == Position(jobs, LAMBDA j : j.id = job_id)
    IN /\ call[t].pc = "idle"
       /\ IF pos = 0
          THEN UNCHANGED <<jobs, call>>
          ELSE IF IsTerminal(status)
               THEN LET job == [jobs[pos] EXCEPT !.status = status,
                                                 !.completed_at = TRUE]
                    IN /\ jobs' = [jobs EXCEPT ![pos] = job]
                       /\ call' = [call EXCEPT ![t] =
                                     [pc |-> "history", job_id |-> job_id,
                                      completed_job |-> job]]
               ELSE /\ jobs' = [jobs EXCEPT ![pos].status = status]
                    /\ UNCHANGED call
       /\ UNCHANGED <<history, histLock, nextId, ret, startLog>>

\* update_status: acquire the history write lock and push the clone
update_status_push(t) ==
    /\ call[t].pc = "history"
    /\ histLock = "free"
    /\ histLock' = t
    /\ history' = PushBack(history, call[t].completed_job)
    /\ call' = [call EXCEPT ![t].pc = "trim"]
    /\ UNCHANGED <<jobs, nextId, ret, startLog>>

\* while history.len() > max_history { history.remove(0) }
RECURSIVE TrimHistory(_)
TrimNothing(h) == h
TrimNewest(h) == IF Len(h) > max_history THEN SubSeq(h, 1, max_history) ELSE h
TrimHistory(h) == IF Len(h) > max_history THEN TrimHistory(RemoveAt(h, 1)) ELSE h

\* update_status: the trim loop, still under the history write lock
update_status_trim(t) ==
    /\ call[t].pc = "trim"
    /\ history' = TrimHistory(history)
    /\ call' = [call EXCEPT ![t].pc = "retain"]
    /\ UNCHANGED <<jobs, histLock, nextId, ret, startLog>>

\* update_status: re-acquire the jobs write lock, jobs.retain(|j| j.id != job_id),
\* then both guards are dropped
update_status_retain(t) ==
    /\ call[t].pc = "retain"
    /\ jobs' = Retain(jobs, LAMBDA j : j.id # call[t].job_id)
    /\ histLock' = "free"
    /\ call' = [call EXCEPT ![t] = IdleCall]
    /\ UNCHANGED <<history, nextId, ret, startLog>>

\* cancel's search: jobs.iter_mut().find(|j| j.id == job_id && j.status == Pending)
CancellableAnyStatus(q, job_id) ==
    Position(q, LAMBDA j : j.id = job_id /\ ~IsTerminal(j.status))
Cancellable(q, job_id) ==
    Position(q, LAMBDA j : j.id = job_id /\ j.status = "pending")

\* cancel(job_id) returning ok: the job found becomes Cancelled and gets
\* completed_at and the call returns true (the job stays in the live
\* queue); with no such job the call returns false
cancel(job_id, ok) ==
    LET pos == Cancellable(jobs, job_id)
    IN /\ ok = (pos # 0)
       /\ IF pos # 0
          THEN jobs' = [jobs EXCEPT ![pos] = [jobs[pos] EXCEPT
                            !.status = "cancelled", !.completed_at = TRUE]]
          ELSE UNCHANGED jobs
       /\ UNCHANGED <<history, histLock, nextId, call, ret, startLog>>

----------------------------------------------------------------------------
(* Server configuration, bearer tokens and requests *)

\* peers: one inside the allow-list, one outside every CIDR of it
InsideIp == "10.1.2.3"
OutsideIp == "8.8.8.8"
IPs == {InsideIp, OutsideIp}

\* server.allowed_networks, each network as the set of addresses it contains
allowed_networks == <<{InsideIp}>>

\* is_ip_allowed: some network of the list contains the address
is_ip_allowed(ip, networks) == \E n \in 1..Len(networks) : ip \in networks[n]

\* auth.jwt_secret
jwt_secret == "k"

\* WebhookEndpoint { deployment, secret }; Option::None is NoSecret
NoSecret == "None"
WebhookEndpoint(deployment, secret) == [deployment |-> deployment, secret |-> secret]

\* the configurations of modules.webhooks.endpoints for deployment "A":
\* no endpoint, one with an empty secret, one with the secret "s"
EndpointVariants ==
    { <<>>,
      <<WebhookEndpoint("A", "")>>,
      <<WebhookEndpoint("A", "s")>> }

\* Config: the fields the admission pipeline and the webhook handlers read
ServerConfig(isolation_mode, endpoints) ==
    [isolation_mode |-> isolation_mode, endpoints |-> endpoints]

\* a bearer token: the key that signed it and its claims iss and exp
Token(key, iss, exp) == [key |-> key, iss |-> iss, exp |-> exp]

\* the tokens a client may present: well-signed ones that expire before
\* the clock starts, at tick 0 and after the clock stops, one signed with
\* another key, one from another issuer
Tokens ==
    { Token(jwt_secret, "infractl", 0 - 1),
      Token(jwt_secret, "infractl", 0),
      Token(jwt_secret, "infractl", MaxTime + 1),
      Token("other", "infractl", MaxTime + 1),
      Token(jwt_secret, "other", MaxTime + 1) }

\* the Authorization header: None, or a scheme prefix and the rest
NoHeader == <<>>
AuthHeaders ==
    {NoHeader} \cup {<<"Bearer ", t>> : t \in Tokens}
               \cup {<<"Basic ", Token(jwt_secret, "infractl", MaxTime + 1)>>}

\* the request paths: one that needs no token and the webhook routes
Paths == {"/health", "/webhook/deploy/A", "/webhook/shutdown/A",
          "/webhook/shutdown/B"}

\* an optional header value: <<>> when the header is absent
Absent == <<>>

\* hex::encode of the HMAC-SHA256 of the body under the secret
hmac_sha256_hex(secret, body) == <<"hmac", secret, body>>

\* the raw body of a webhook request
Body == "b"

\* x-hub-signature-256: absent, the right signature, one over another
\* body, one with another prefix
SignatureHeaders ==
    { Absent,
      <<"sha256=", hmac_sha256_hex("s", Body)>>,
      <<"sha256=", hmac_sha256_hex("s", "c")>>,
      <<"sha1=", hmac_sha256_hex("s", Body)>> }

\* x-gitlab-token: absent, the secret, another value
GitlabTokens == {Absent, <<"s">>, <<"x">>}

WebhookHeaders == [sig : SignatureHeaders, gitlab : GitlabTokens]
NoHeaders == [sig |-> Absent, gitlab |-> Absent]

\* a request slot before the request has arrived
NoRequest == [pc |-> "none"]

\* no RateLimiter::check call in progress
IdleCheck == [pc |-> "idle"]

----------------------------------------------------------------------------
(* Data: the metrics store (src/storage) *)

\* Time is counted in half hours since midnight of day 0.
TicksPerHour == 2
TicksPerDay == 24 * TicksPerHour

\* the agents that report samples
Agents == {"a1", "a2"}

\* storage::init and the retention settings the tasks are started with:
\* run passes parse_retention_days(retention.raw_data) and (..hourly_data);
\* the defaults are "7d" and "30d"
Database_new(raw_days, hourly_days) ==
    [clock |-> 0, nextRow |-> 1, raw |-> {}, hourly |-> {}, sweep |-> "idle",
     raw_days |-> raw_days, hourly_days |-> hourly_days]

\* the retention settings of the configurations considered, in days: raw
\* samples kept shorter than, as long as, and longer than hourly rows
RetentionVariants == {<<1, 2>>, <<1, 1>>, <<2, 1>>}

----------------------------------------------------------------------------
(* Data: config sync (src/updater/config_sync.rs) *)

\* calls of sync in one behaviour
MaxSyncs == 2

\* cleanup_backups(5)
keep == 5

\* A content is a text (a sequence of pieces) with what validate_config
\* reads of it: whether serde_yaml parses it, its length in bytes, and
\* whether it contains "mode:" (the empty text parses, as YAML null).
Content(text, yaml, len, mode) ==
    [text |-> text, yaml |-> yaml, len |-> len, mode |-> mode]
EmptyContent == Content(<<>>, TRUE, 0, FALSE)
LocalContent == Content(<<"mode: agent # v1 ..">>, TRUE, 60, TRUE)
\* what the remote URL may serve
RemoteContents ==
    { LocalContent,
      Content(<<"mode: agent # v2 ..">>, TRUE, 60, TRUE),
      Content(<<"mode: agent # 50 bytes">>, TRUE, 50, TRUE),
      Content(<<"mode: agent # 49 bytes">>, TRUE, 49, TRUE),
      Content(<<"port: 8111 ..">>, TRUE, 60, FALSE),
      Content(<<"mode: [agent ..">>, FALSE, 60, TRUE),
      EmptyContent }
\* a file that received only the first bytes of a write
Partial(content) ==
    Content(<<"first bytes of">> \o content.text, FALSE, 1, FALSE)

\* compute_hash: SHA-256 in hex, taken as injective on the texts
compute_hash(content) == <<"sha256", content.text>>

\* ConfigSync::validate_config's verdict: Ok, or the first check that fails
validate_config_any(content) == "Ok"
validate_config(content) ==
    IF ~content.yaml THEN "Invalid YAML"
    ELSE IF content.len = 0 THEN "empty"
    ELSE IF content.len < 50 THEN "too small"
    ELSE IF ~content.mode THEN "missing mode"
    ELSE "Ok"

\* ConfigSync::new at startup, with config_update.backup
ConfigSync_new(backup) ==
    [pc |-> "idle", backup |-> backup, file |-> LocalContent, backups |-> <<>>,
     remote |-> EmptyContent, old |-> LocalContent, oldBackups |-> <<>>,
     result |-> "none", calls |-> 0]

----------------------------------------------------------------------------
(* Data: the updater (src/updater/mod.rs, github.rs, binary.rs) *)

\* iterations of start_update_checker's loop in one behaviour
MaxChecks == 2

\* cleanup_backups(3)
keep_backups == 3

\* semver::Version: major.minor.patch and the pre-release, 0 for none and
\* otherwise its rank among the pre-releases of that core version
Version(major, minor, patch, pre) ==
    [major |-> major, minor |-> minor, patch |-> patch, pre |-> pre]

\* the precedence of semver: the core versions in lexicographic order; of
\* equal cores a pre-release precedes the release, and the pre-release of
\* lower rank the one of higher rank
Precedes(a, b) ==
    \/ a.major < b.major
    \/ a.major = b.major /\ a.minor < b.minor
    \/ a.major = b.major /\ a.minor = b.minor /\ a.patch < b.patch
    \/ /\ a.major = b.major /\ a.minor = b.minor /\ a.patch = b.patch
       /\ a.pre # 0
       /\ b.pre = 0 \/ a.pre < b.pre

\* a tag or version text: `vs` letters v, then a text that is well-formed
\* semver of that version (major.minor.patch[-pre]) or is not ("latest",
\* "1.0")
Tag(vs, wellformed, version) ==
    [vs |-> vs, wellformed |-> wellformed, version |-> version]

\* str::strip_prefix('v').unwrap_or(text): one leading v less
strip_prefix_v(text) == IF text.vs > 0 THEN [text EXCEPT !.vs = @ - 1] ELSE text

\* semver::Version::parse: a leading v or any other malformation is an error
Version_parse(text) ==
    IF text.vs = 0 /\ text.wellformed
    THEN [ok |-> TRUE, version |-> text.version]
    ELSE [ok |-> FALSE, version |-> text.version]

\* is_newer_version: an error when either text does not parse, else
\* Ok(remote_ver > current_ver)
is_newer_version_or_equal(current, remote) ==
    LET current_ver == Version_parse(strip_prefix_v(current))
        remote_ver == Version_parse(strip_prefix_v(remote))
    IN IF ~current_ver.ok \/ ~remote_ver.ok THEN [ok |-> FALSE, newer |-> FALSE]
       ELSE [ok |-> TRUE,
             newer |-> ~Precedes(remote_ver.version, current_ver.version)]
is_newer_version(current, remote) ==
    LET current_ver == Version_parse(strip_prefix_v(current))
        remote_ver == Version_parse(strip_prefix_v(remote))
    IN IF ~current_ver.ok THEN [ok |-> FALSE, newer |-> FALSE]
       ELSE IF ~remote_ver.ok THEN [ok |-> FALSE, newer |-> FALSE]
       ELSE [ok |-> TRUE,
             newer |-> Precedes(current_ver.version, remote_ver.version)]

\* CARGO_PKG_VERSION of the running binary: 0.2.0
current_version == Tag(0, TRUE, Version(0, 2, 0, 0))

\* the tags is_newer_version is asked about
Versions ==
    { Version(0, 1, 0, 0), Version(0, 2, 0, 1), Version(0, 2, 0, 0),
      Version(0, 2, 1, 0), Version(0, 3, 0, 1), Version(0, 3, 0, 2),
      Version(0, 3, 0, 0), Version(1, 0, 0, 0) }
Tags == { Tag(vs, wf, v) : vs \in 0..2, wf \in BOOLEAN, v \in Versions }

\* file names, as sequences of pieces: format!("infractl-{}", target) and
\* its archive forms
binary_name == <<"infractl-T">>
ends_with(file, filename) ==
    /\ Len(file) >= Len(filename)
    /\ SubSeq(file, Len(file) - Len(filename) + 1, Len(file)) = filename

\* str::trim_start_matches('*')
trim_start_star(file) ==
    IF file # <<>> /\ Head(file) = "*" THEN Tail(file) ELSE file

\* a SHA-256 in hex: the bytes it is the digest of (SHA-256 taken as
\* injective) and the case of its letters
Hex(bytes, upper) == [of |-> bytes, upper |-> upper]
Sha256(bytes) == Hex(bytes, FALSE)
to_lowercase(hex) == [hex EXCEPT !.upper = FALSE]

\* BinaryUpdater::verify_checksum
verify_checksum_skip(data, expected) == TRUE
verify_checksum(data, expected) == Sha256(data) = to_lowercase(expected)

\* parse_checksum: the hash of the first line whose file name, without a
\* leading *, is filename or ends with it; lines are <<hash, file>>
RECURSIVE parse_checksum(_, _)
parse_checksum(checksums, filename) ==
    IF checksums = <<>> THEN [some |-> FALSE, hash |-> Hex("", FALSE)]
    ELSE LET file == trim_start_star(Head(checksums)[2])
         IN IF file = filename \/ ends_with(file, filename)
            THEN [some |-> TRUE, hash |-> Head(checksums)[1]]
            ELSE parse_checksum(Tail(checksums), filename)

\* ReleaseAsset: its name and the bytes download_asset yields; `member` is
\* what extract_from_tarball finds under the name infractl ("" when the
\* archive has no such entry or is no archive)
Asset(name, bytes, member) == [name |-> name, bytes |-> bytes, member |-> member]
PlainAsset == Asset(binary_name, "new binary", "")
TarAsset == Asset(binary_name \o <<".tar.gz">>, "archive", "new binary")
BadTarAsset == Asset(binary_name \o <<".tar.gz">>, "archive", "")
ZipAsset == Asset(binary_name \o <<".zip">>, "zip archive", "")

\* Release: tag_name, the assets find_binary_asset chooses from (at most
\* one here), and the checksum file download_checksum finds (found = FALSE:
\* none of the four names is among the assets)
Release(tag_name, assets, found, checksums) ==
    [tag_name |-> tag_name, assets |-> assets, found |-> found,
     checksums |-> checksums]
NoRelease == Release(Tag(0, FALSE, Version(0, 0, 0, 0)), <<>>, FALSE, <<>>)

\* Release::find_binary_asset: the first asset named infractl-<target>,
\* or that with .tar.gz or .zip
find_binary_asset(release) ==
    LET found == SelectSeq(release.assets, LAMBDA a :
                     \/ a.name = binary_name
                     \/ a.name = binary_name \o <<".tar.gz">>
                     \/ a.name = binary_name \o <<".zip">>)
    IN IF found = <<>> THEN <<>> ELSE <<Head(found)>>

v030 == Tag(1, TRUE, Version(0, 3, 0, 0))
\* what the GitHub API may answer
Releases ==
    { \* newer, the checksum entry matches (in lower case, in upper case)
      Release(v030, <<PlainAsset>>, TRUE,
              << <<Hex("other binary", FALSE), <<"infractl-other">> >>,
                 <<Hex("new binary", FALSE), binary_name>> >>),
      Release(Tag(0, TRUE, Version(0, 3, 0, 0)), <<PlainAsset>>, TRUE,
              << <<Hex("new binary", TRUE), <<"*">> \o binary_name>> >>),
      \* newer, the entry does not match
      Release(v030, <<PlainAsset>>, TRUE,
              << <<Hex("other binary", FALSE), binary_name>> >>),
      \* newer, the first line ending with the name is another file's
      Release(v030, <<PlainAsset>>, TRUE,
              << <<Hex("other binary", FALSE), <<"arm-">> \o binary_name>>,
                 <<Hex("new binary", FALSE), binary_name>> >>),
      \* newer, a checksum file without an entry, and no checksum file
      Release(v030, <<PlainAsset>>, TRUE,
              << <<Hex("other binary", FALSE), <<"infractl-other">> >> >>),
      Release(v030, <<PlainAsset>>, FALSE, <<>>),
      \* newer, archives: the entry is the archive's digest
      Release(v030, <<TarAsset>>, TRUE,
              << <<Hex("archive", FALSE), binary_name \o <<".tar.gz">> >> >>),
      Release(v030, <<TarAsset>>, TRUE,
              << <<Hex("new binary", FALSE), binary_name \o <<".tar.gz">> >> >>),
      Release(v030, <<TarAsset>>, FALSE, <<>>),
      Release(v030, <<BadTarAsset>>, FALSE, <<>>),
      Release(v030, <<ZipAsset>>, FALSE, <<>>),
      \* newer, no asset for this platform
      Release(v030, <<>>, FALSE, <<>>),
      \* a pre-release of a newer version
      Release(Tag(1, TRUE, Version(0, 3, 0, 1)), <<PlainAsset>>, FALSE, <<>>),
      \* equal, older, a pre-release of the running version
      Release(Tag(1, TRUE, Version(0, 2, 0, 0)), <<PlainAsset>>, FALSE, <<>>),
      Release(Tag(0, TRUE, Version(0, 1, 0, 0)), <<PlainAsset>>, TRUE,
              << <<Hex("other binary", FALSE), binary_name>> >>),
      Release(Tag(1, TRUE, Version(0, 2, 0, 1)), <<PlainAsset>>, FALSE, <<>>),
      \* tags that are not semver
      Release(Tag(2, TRUE, Version(0, 3, 0, 0)), <<PlainAsset>>, FALSE, <<>>),
      Release(Tag(0, FALSE, Version(0, 3, 0, 0)), <<PlainAsset>>, FALSE, <<>>) }

\* UpdaterState::default and the fields the updater writes
UpdaterState(latest_version, update_available, last_error) ==
    [latest_version |-> latest_version, update_available |-> update_available,
     last_error |-> last_error]

\* Updater::new with the executable and the backup directory as they are
\* at startup; `exe0`, `backups0` and `temp0` are the disk as the latest
\* self_update call found it, `failed` the error of the latest failed
\* attempt
Updater_new(auto_update) ==
    [pc |-> "idle", auto_update |-> auto_update, checks |-> 0,
     state |-> UpdaterState(<<>>, FALSE, <<>>),
     release |-> NoRelease, binary |-> "", expected |-> <<>>,
     called |-> FALSE, failed |-> <<>>,
     exe |-> "running binary", backups |-> <<>>, temp |-> "",
     exe0 |-> "running binary", backups0 |-> <<>>, temp0 |-> "",
     result |-> "none", requires_restart |-> FALSE]

----------------------------------------------------------------------------
(* Data: file fetch (src/deploy/git.rs) *)

\* mappings of one fetch_files call, and calls in one behaviour
MaxMappings == 2
MaxFetches == 1

\* A path is the sequence of its components from /. The file system is the
\* directories, the regular files and the symbolic links (<<path, target>>,
\* the target an absolute path without links), each by its real path.
FileSystem(dirs, files, links) == [dirs |-> dirs, files |-> files, links |-> links]

\* the deployment root (dest_path) and the temporary clone
dest_path == <<"srv", "app">>

\* what a directory entry denotes: the target of a link, else itself
Node(fs, path) ==
    LET l == {x \in fs.links : x[1] = path}
    IN IF l = {} THEN path ELSE (CHOOSE x \in l : TRUE)[2]

\* Path::parent and Path::file_name: lexical, the last component off, and
\* the last component unless it is ..
Parent(path) == IF path = <<>> THEN <<>> ELSE SubSeq(path, 1, Len(path) - 1)
file_name(path) ==
    IF path = <<>> \/ path[Len(path)] = ".." THEN <<>> ELSE <<path[Len(path)]>>

\* Path::canonicalize: the real path, every component resolved and every
\* one existing; <<real>> or <<>> (No such file or directory)
RECURSIVE Walk(_, _, _)
Walk(fs, at, rest) ==
    IF rest = <<>> THEN <<at>>
    ELSE IF Head(rest) = ".." THEN Walk(fs, Parent(at), Tail(rest))
    ELSE LET node == Node(fs, Append(at, Head(rest)))
         IN IF node \in fs.dirs THEN Walk(fs, node, Tail(rest))
            ELSE IF node \in fs.files /\ Tail(rest) = <<>> THEN <<node>>
            ELSE <<>>
canonicalize(fs, path) == Walk(fs, <<>>, path)

\* Path::exists: follows links, false for a broken one
Path_exists(fs, path) == canonicalize(fs, path) # <<>>

\* fs::create_dir_all: every missing directory on the way is made; an
\* error where a file or a broken link is in the way
RECURSIVE MakeDirs(_, _, _)
MakeDirs(fs, at, rest) ==
    IF rest = <<>> THEN [ok |-> TRUE, fs |-> fs]
    ELSE IF Head(rest) = ".." THEN MakeDirs(fs, Parent(at), Tail(rest))
    ELSE LET entry == Append(at, Head(rest))
             node == Node(fs, entry)
         IN IF node \in fs.dirs THEN MakeDirs(fs, node, Tail(rest))
            ELSE IF node \in fs.files \/ node # entry THEN [ok |-> FALSE, fs |-> fs]
            ELSE MakeDirs([fs EXCEPT !.dirs = @ \cup {entry}], entry, Tail(rest))
create_dir_all(fs, path) == MakeDirs(fs, <<>>, path)

\* Path::starts_with, component-wise
starts_with(path, base) ==
    Len(base) <= Len(path) /\ SubSeq(path, 1, Len(base)) = base

\* validate_path_containment: Ok(canonical_target) or an error, and the file
\* system as it leaves it. A target that does not exist has its parent
\* created first and is the canonical parent joined with its file name.
validate_path_containment(fs, base, target) ==
    LET canonical_base == canonicalize(fs, base)
        made == create_dir_all(fs, Parent(target))
        canonical_parent == canonicalize(made.fs, Parent(target))
        canonical_target ==
            IF Path_exists(fs, target) THEN canonicalize(fs, target)[1]
            ELSE canonical_parent[1] \o file_name(target)
    IN IF canonical_base = <<>> THEN [ok |-> FALSE, dst |-> <<>>, fs |-> fs]
       ELSE IF Path_exists(fs, target)
       THEN [ok |-> starts_with(canonical_target, canonical_base[1]),
             dst |-> canonical_target, fs |-> fs]
       ELSE IF ~made.ok \/ canonical_parent = <<>> \/ file_name(target) = <<>>
       THEN [ok |-> FALSE, dst |-> <<>>, fs |-> made.fs]
       ELSE [ok |-> starts_with(canonical_target, canonical_base[1]),
             dst |-> canonical_target, fs |-> made.fs]

\* fs::copy(src, dst): dst is opened for writing, created and truncated;
\* the open follows a link, a broken one included, and the file is then its
\* target. An error when that is a directory or its directory is missing.
fs_copy(fs, dst) ==
    LET real == Node(fs, dst)
    IN IF real \in fs.dirs \/ Parent(real) \notin fs.dirs
       THEN [ok |-> FALSE, fs |-> fs, wrote |-> {}]
       ELSE [ok |-> TRUE, fs |-> [fs EXCEPT !.files = @ \cup {real}],
             wrote |-> {real}]

\* A mapping "from:to": `from` is a file of the repository, a directory of
\* it (holding the one file app.conf) or missing from it; `to` is the path
\* under dest_path without the trailing /, `slash` whether either side ends
\* with /.
Mapping(from, to, slash) == [from |-> from, to |-> to, slash |-> slash]
Mappings ==
    { Mapping("file", <<"app.conf">>, FALSE),
      Mapping("file", <<"conf", "app.conf">>, FALSE),
      Mapping("dir", <<"conf">>, TRUE),
      Mapping("file", <<"conf">>, TRUE),
      Mapping("missing", <<"app.conf">>, FALSE),
      \* "evil:../../outside"
      Mapping("file", <<"..", "..", "outside">>, FALSE),
      Mapping("file", <<"..", "new", "x", "evil">>, FALSE),
      Mapping("dir", <<"..", "other">>, TRUE),
      Mapping("file", <<"..", "secret">>, FALSE),
      Mapping("file", <<"link">>, FALSE) }
MappingLists == UNION {[1..n -> Mappings] : n \in 1..MaxMappings}

\* the disk before a fetch: /srv/app with app.conf, /srv/secret beside it,
\* and /srv/app/link absent, a link to /srv/secret or a link to /srv/absent,
\* which does not exist
Disk(links) ==
    FileSystem({<<>>, <<"srv">>, <<"srv", "app">>},
               {<<"srv", "secret">>, <<"srv", "app", "app.conf">>}, links)
NoLinks == Disk({})
Disks ==
    { NoLinks,
      Disk({<< <<"srv", "app", "link">>, <<"srv", "secret">> >>}),
      Disk({<< <<"srv", "app", "link">>, <<"srv", "absent">> >>}) }

\* GitDeploy with no fetch_files call yet; `wrote` are the real paths of the
\* files the latest call created or overwrote, `passed` the destinations
\* validate_path_containment returned Ok for, `copied` those handed to
\* fs::copy
GitDeploy_new(disk) ==
    [pc |-> "idle", fetches |-> 0, file_mappings |-> <<>>, i |-> 1,
     disk |-> disk, disk0 |-> disk, wrote |-> {}, passed |-> {}, copied |-> {},
     result |-> "none"]

----------------------------------------------------------------------------
(* Data: inline commands (src/deploy/script.rs) *)

\* longest command text, in characters
MaxLen == 3

\* a command text is a sequence of these characters ("backtick" is the
\* character U+0060)
Chars == {"a", "$", "(", "backtick", "&", "|", ";", ">", "<"}
Commands == UNION {[1..n -> Chars] : n \in 1..MaxLen}

\* str::contains(pattern)
contains(text, pattern) ==
    \E i \in 1..(Len(text) - Len(pattern) + 1) :
        SubSeq(text, i, i + Len(pattern) - 1) = pattern

\* validate_command's dangerous_patterns
dangerous_patterns_without_pipe ==
    << <<"$", "(">>, <<"backtick">>, <<"&", "&">>, <<"|", "|">>, <<";">>,
       <<">", ">">>, <<">", "&">>, <<"<", "(">>, <<">", "(">> >>
dangerous_patterns ==
    << <<"$", "(">>, <<"backtick">>, <<"&", "&">>, <<"|", "|">>, <<";">>, <<"|">>,
       <<">", ">">>, <<">", "&">>, <<"<", "(">>, <<">", "(">> >>

\* validate_command: the first pattern the command contains is the error
\* (0: Ok)
validate_command(cmd) ==
    LET found == {k \in 1..Len(dangerous_patterns) :
                      contains(cmd, dangerous_patterns[k])}
    IN IF found = {} THEN 0
       ELSE CHOOSE k \in found : \A j \in found : k <= j

\* ScriptRunner::new and the arguments of the run_command call to come;
\* `spawned` are the processes the call has spawned
ScriptRunner_new(command, run_as_user) ==
    [pc |-> "idle", called |-> FALSE, command |-> command,
     run_as_user |-> run_as_user, spawned |-> <<>>, result |-> "none"]

----------------------------------------------------------------------------
(* Data: configuration load (src/config.rs) *)

\* deployments in one file
MaxPerFile == 2

\* a DeploymentConfig as the loader sees it: its name, and the file it was
\* read from
Loaded(name, file) == [name |-> name, file |-> file]
LoadNames == {"api", "web"}

\* the contents a file may have: a list of deployments, or text serde_yaml
\* rejects (parses = FALSE)
FileContent(parses, names) == [parses |-> parses, names |-> names]
NameLists == UNION {[1..n -> LoadNames] : n \in 0..MaxPerFile}
FileContents ==
    {FileContent(TRUE, names) : names \in NameLists} \cup {FileContent(FALSE, <<>>)}

\* the deployments of a file, each tagged with the file
DeploymentsOf(file, content) ==
    [i \in 1..Len(content.names) |-> Loaded(content.names[i], file)]

\* entries.sort(): the paths of deployments.d in alphabetical order
RECURSIVE SortPaths(_)
SortPaths(paths) ==
    IF paths = {} THEN <<>>
    ELSE LET first == CHOOSE p \in paths : \A q \in paths : p <= q
         IN <<first>> \o SortPaths(paths \ {first})

\* the files on disk: the main file, deployments.yaml (<<>> when absent)
\* and deployments.d/<n>.yaml for the n in the domain of `dir`; `path` is
\* whether modules.deploy.external_deployments_path is set
ConfigFiles(main, path, single, dir) ==
    [main |-> main, path |-> path, single |-> single, dir |-> dir]

\* load_external_deployments: Err at the first file that does not parse,
\* else deployments.yaml's list followed by those of deployments.d in order
RECURSIVE ExtendFrom(_, _, _)
ExtendFrom(deps, dir, entries) ==
    IF entries = <<>> THEN [ok |-> TRUE, deployments |-> deps]
    ELSE LET content == dir[Head(entries)]
         IN IF ~content.parses THEN [ok |-> FALSE, deployments |-> <<>>]
            ELSE ExtendFrom(deps \o DeploymentsOf(Head(entries), content),
                            dir, Tail(entries))
load_external_deployments(files) ==
    LET single == IF files.single = <<>> THEN <<>>
                  ELSE DeploymentsOf(0, files.single[1])
    IN IF files.single # <<>> /\ ~files.single[1].parses
       THEN [ok |-> FALSE, deployments |-> <<>>]
       ELSE ExtendFrom(single, files.dir, SortPaths(DOMAIN files.dir))

\* the loop of load over the external deployments: one is pushed unless
\* base_names, the names of the main file, contains its name
RECURSIVE MergeExternal(_, _, _)
MergeExternal(deps, base_names, external) ==
    IF external = <<>> THEN deps
    ELSE MergeExternal(IF Head(external).name \in base_names THEN deps
                       ELSE Append(deps, Head(external)),
                       base_names, Tail(external))

\* load before it has read anything
Loader_new(files) ==
    [pc |-> "start", files |-> files, deployments |-> <<>>,
     external |-> [ok |-> TRUE, deployments |-> <<>>], result |-> "none"]
NoFiles == ConfigFiles(FileContent(TRUE, <<>>), FALSE, <<>>, <<>>)

\* parse_file_mappings not called yet on `files`; result is <<>> until it
\* has returned
Parse_new(files) == [files |-> files, result |-> <<>>]

\* no reading handler has been called
IdleView == [pc |-> "idle"]

\* no job is waiting or running and no webhook request has been made
IdleChain == [pending |-> <<>>, running |-> <<>>, webhooks |-> 0]
\* longest mapping text, in characters, and mappings in one git_files list
MaxText == 3
MaxFiles == 2

\* the mapping texts parse_file_mappings is given: sequences of characters
MappingTexts == UNION {[1..n -> {"a", ":"}] : n \in 0..MaxText}
FileLists == UNION {[1..n -> MappingTexts] : n \in 0..MaxFiles}


----------------------------------------------------------------------------
(* Initial state: AppState::new / DeployQueue::new, worker at its loop head *)

NoResult == [set |-> FALSE]
IdleExec == [phase |-> "idle", i |-> 0, output |-> <<>>, skipped |-> FALSE,
             trace |-> <<>>]

InitState ==
    /\ jobs = <<>>
    /\ history = <<>>
    /\ histLock = "free"
    /\ nextId = 1
    /\ call = [t \in Tasks |-> IdleCall]
    /\ ret = [t \in Tasks |-> NoJob]
    /\ wpc = "poll"
    /\ ex = IdleExec
    /\ result = NoResult
    /\ trigIdx = 0
    /\ startLog = <<>>
    /\ doneLog = <<>>
    /\ fanout = <<>>
    /\ now = 0
    /\ limiter = <<>>
    /\ req = [i \in Requests |-> NoRequest]
    /\ chk = [k \in Requests |-> IdleCheck]
    /\ suspicious = <<>>
    /\ admitted = <<>>

\* the process is serving; the background services have not acted
InitServices ==
    /\ proc = "serving"
    /\ store = Database_new(7, 30)
    /\ sync = ConfigSync_new(TRUE)
    /\ upd = Updater_new(FALSE)
    /\ fetch = GitDeploy_new(NoLinks)
    /\ script = ScriptRunner_new(<<"a">>, "")
    /\ loader = Loader_new(NoFiles)
    /\ mapped = Parse_new(<<>>)
    /\ view = IdleView
    /\ chain = IdleChain

\* the configuration is loaded once; the parent deployment is any variant
Init ==
    /\ deployments \in {<<p, ChildA, ChildB>> : p \in ParentVariants}
    /\ config = ServerConfig(FALSE, <<>>)
    /\ InitState
    /\ InitServices

\* the queue on its own: one fixed configuration
InitQueue ==
    /\ deployments = <<ChildA, ChildB>>
    /\ config = ServerConfig(FALSE, <<>>)
    /\ InitState
    /\ InitServices

----------------------------------------------------------------------------
(* SpecQueue: the queue under arbitrary concurrent callers *)

\* the statuses the clients pass to update_status: one that is not terminal
\* and one that is (update_status treats Completed, Failed and Cancelled
\* alike; cancel brings Cancelled into the live queue). Pending is only
\* ever set by DeployJob::new.
UpdateStatuses == {"running", "completed"}

\* POST /webhook/deploy/<name>, from the enqueue on: DeployJob::new and
\* queue.enqueue(job)
trigger_deploy(name) ==
    /\ nextId <= MaxJobs
    /\ FindDeployment(deployments, name) # NoDeployment
    /\ jobs' = enqueue(jobs, DeployJob_new(nextId, name, ManualSource))
    /\ nextId' = nextId + 1
    /\ UNCHANGED <<history, histLock, call, ret, startLog>>

ClientEnqueue ==
    /\ trigger_deploy("A")
    /\ UNCHANGED <<services, admission, deployments, wpc, ex, result, trigIdx, doneLog, fanout>>

ClientNextJob ==
    /\ next_job(Poller)
    /\ UNCHANGED <<services, admission, deployments, wpc, ex, result, trigIdx, doneLog, fanout>>

ClientUpdateStatus ==
    \E t \in Clients, id \in 1..MaxJobs, status \in UpdateStatuses :
        /\ update_status_begin(t, id, status)
        /\ UNCHANGED <<services, admission, deployments, wpc, ex, result, trigIdx, doneLog, fanout>>

ClientUpdatePush ==
    \E t \in Clients :
        /\ update_status_push(t)
        /\ UNCHANGED <<services, admission, deployments, wpc, ex, result, trigIdx, doneLog, fanout>>

ClientUpdateTrim ==
    \E t \in Clients :
        /\ update_status_trim(t)
        /\ UNCHANGED <<services, admission, deployments, wpc, ex, result, trigIdx, doneLog, fanout>>

ClientUpdateRetain ==
    \E t \in Clients :
        /\ update_status_retain(t)
        /\ UNCHANGED <<services, admission, deployments, wpc, ex, result, trigIdx, doneLog, fanout>>

ClientCancel ==
    \E id \in 1..MaxJobs, ok \in BOOLEAN :
        /\ cancel(id, ok)
        /\ UNCHANGED <<services, admission, deployments, wpc, ex, result, trigIdx, doneLog, fanout>>

NextQueue ==
    \/ ClientEnqueue
    \/ ClientNextJob
    \/ ClientUpdateStatus
    \/ ClientUpdatePush
    \/ ClientUpdateTrim
    \/ ClientUpdateRetain
    \/ ClientCancel

SpecQueue == InitQueue /\ [][NextQueue]_vars

----------------------------------------------------------------------------
(* DeployExecutor::execute: the per-job state machine *)

\* s.rsplitn(2, ':'), in the order of the text: the parts around the last
\* colon
SplitLastColon(s) ==
    LET last == {i \in 1..Len(s) : s[i] = ":"}
        pos == IF last = {} THEN 0 ELSE CHOOSE i \in last : \A j \in last : j <= i
    IN IF pos = 0 THEN <<s>>
       ELSE <<SubSeq(s, 1, pos - 1), SubSeq(s, pos + 1, Len(s))>>

\* s.splitn(2, ':'): the part before the first colon and the rest, or the
\* whole string when it has no colon
SplitFirstColon(s) ==
    LET pos == Position(s, LAMBDA c : c = ":")
    IN IF pos = 0 THEN <<s>>
       ELSE <<SubSeq(s, 1, pos - 1), SubSeq(s, pos + 1, Len(s))>>

\* parse_file_mappings: Err at the first mapping that does not split in two
parse_file_mappings(files) ==
    LET bad == Position(files, LAMBDA f : Len(SplitFirstColon(f)) # 2)
    IN IF bad # 0
       THEN [ok |-> FALSE, invalid |-> files[bad], mappings |-> <<>>]
       ELSE [ok |-> TRUE, invalid |-> <<>>,
             mappings |-> [i \in 1..Len(files) |-> SplitFirstColon(files[i])]]

\* the deployment the worker's job carries (job.config)
JobConfig == FindDeployment(deployments, ret[Worker].deployment_name)

\* the guards that decide which phase runs next; a phase is <<name, index>>
\*   if !skipped && !config.post_deploy.is_empty()
StartPost(cfg, skipped) ==
    IF ~skipped /\ cfg.post_deploy # <<>> THEN <<"post", 1>> ELSE <<"done", 0>>
\*   if !config.git_files.is_empty(), else the main step
StartGitFiles(cfg) ==
    IF cfg.git_files # <<>> THEN <<"git_files", 0>> ELSE <<"main", 0>>
\*   if !config.pre_deploy.is_empty()
StartPre(cfg) ==
    IF cfg.pre_deploy # <<>> THEN <<"pre", 1>> ELSE StartGitFiles(cfg)
\*   if let Some(ref path) = config.path
StartPath(cfg) ==
    IF cfg.path THEN <<"path", 0>> ELSE StartPre(cfg)

Step(name, i, ok) == [step |-> name, i |-> i, ok |-> ok]

\* a step succeeded: go on with phase `next`; falling off the end of
\* execute returns DeployResult { success: true, skipped, output, error: None }
ExecGoto(next, out, skipped, step) ==
    /\ ex' = [phase |-> next[1], i |-> next[2], output |-> out,
              skipped |-> skipped, trace |-> Append(ex.trace, step)]
    /\ IF next[1] = "done"
       THEN /\ result' = [set |-> TRUE, success |-> TRUE, skipped |-> skipped,
                          output |-> out, error |-> "none"]
            /\ wpc' = "final"
       ELSE UNCHANGED <<result, wpc>>

\* a step failed: return DeployResult { success: false, skipped: false,
\* output, error: Some(error_msg) }
ExecFailDropOutput(error, step) ==
    /\ ex' = [ex EXCEPT !.phase = "done", !.i = 0, !.trace = Append(@, step)]
    /\ result' = [set |-> TRUE, success |-> FALSE, skipped |-> FALSE,
                  output |-> <<>>, error |-> error]
    /\ wpc' = "final"
\* the failure propagated out of start_worker with ?: the task ends
ExecFailPropagates(error, step) ==
    /\ ex' = [ex EXCEPT !.phase = "done", !.i = 0, !.trace = Append(@, step)]
    /\ result' = [set |-> TRUE, success |-> FALSE, skipped |-> FALSE,
                  output |-> ex.output, error |-> error]
    /\ wpc' = "stopped"

ExecFail(error, step) ==
    /\ ex' = [ex EXCEPT !.phase = "done", !.i = 0, !.trace = Append(@, step)]
    /\ result' = [set |-> TRUE, success |-> FALSE, skipped |-> FALSE,
                  output |-> ex.output, error |-> error]
    /\ wpc' = "final"

\* phase 1: create_dir_all(path) when the path is absent
ExecPath ==
    /\ wpc = "execute" /\ ex.phase = "path"
    /\ \E ok \in BOOLEAN :
          IF ok
          THEN ExecGoto(StartPre(JobConfig), ex.output, FALSE, Step("path", 0, TRUE))
          ELSE ExecFail("create_path", Step("path", 0, FALSE))
    /\ UNCHANGED <<services, admission, deployments, jobs, history, histLock, nextId, call, ret,
                   trigIdx, startLog, doneLog, fanout>>

\* phase 2: one pre-deploy command through ScriptRunner::run_command
ExecPre ==
    /\ wpc = "execute" /\ ex.phase = "pre"
    /\ LET cmds == JobConfig.pre_deploy
       IN \E ok \in BOOLEAN :
            IF ok
            THEN ExecGoto(IF ex.i < Len(cmds) THEN <<"pre", ex.i + 1>>
                                              ELSE StartGitFiles(JobConfig),
                          Append(ex.output, <<"pre-deploy", cmds[ex.i]>>),
                          FALSE, Step("pre", ex.i, TRUE))
            ELSE ExecFail("pre_deploy", Step("pre", ex.i, FALSE))
    /\ UNCHANGED <<services, admission, deployments, jobs, history, histLock, nextId, call, ret,
                   trigIdx, startLog, doneLog, fanout>>

\* phase 3: git_files needs path and repo, parses the mappings and calls
\* GitDeploy::fetch_files
ExecGitFiles ==
    /\ wpc = "execute" /\ ex.phase = "git_files"
    /\ LET cfg == JobConfig
           parsed == parse_file_mappings(cfg.git_files)
       IN IF ~cfg.path
          THEN ExecFail("git_files_requires_path", Step("git_files", 0, FALSE))
          ELSE IF ~cfg.repo
          THEN ExecFail("git_files_requires_repo", Step("git_files", 0, FALSE))
          ELSE IF ~parsed.ok
          THEN ExecFail("git_files_parse", Step("git_files", 0, FALSE))
          ELSE \E ok \in BOOLEAN :
                 IF ok
                 THEN ExecGoto(<<"main", 0>>, Append(ex.output, <<"git_files", "fetch">>),
                               FALSE, Step("git_files", 0, TRUE))
                 ELSE ExecFail("git_files_fetch", Step("git_files", 0, FALSE))
    /\ UNCHANGED <<services, admission, deployments, jobs, history, histLock, nextId, call, ret,
                   trigIdx, startLog, doneLog, fanout>>

\* phase 4: the main step; git_pull reports whether HEAD changed
\* (a clone counts as changed), and skipped = !has_changes
ExecMain ==
    /\ wpc = "execute" /\ ex.phase = "main"
    /\ LET cfg == JobConfig
       IN \E outcome \in {"err", "changed", "unchanged"} :
            /\ outcome = "unchanged" => cfg.deploy_type = "git_pull"
            /\ (cfg.deploy_type \in {"git_pull", "docker_pull"} /\ ~cfg.path)
                   => outcome = "err"
            /\ IF outcome = "err"
               THEN ExecFail("deployment", Step("main", 0, FALSE))
               ELSE ExecGoto(StartPost(cfg, outcome = "unchanged"),
                             Append(ex.output, <<"main", cfg.deploy_type>>),
                             outcome = "unchanged", Step("main", 0, TRUE))
    /\ UNCHANGED <<services, admission, deployments, jobs, history, histLock, nextId, call, ret,
                   trigIdx, startLog, doneLog, fanout>>

\* phase 5: one post-deploy command (the phase is entered only when
\* !skipped)
ExecPost ==
    /\ wpc = "execute" /\ ex.phase = "post"
    /\ LET cmds == JobConfig.post_deploy
       IN \E ok \in BOOLEAN :
            IF ok
            THEN ExecGoto(IF ex.i < Len(cmds) THEN <<"post", ex.i + 1>>
                                              ELSE <<"done", 0>>,
                          Append(ex.output, <<"post-deploy", cmds[ex.i]>>),
                          ex.skipped, Step("post", ex.i, TRUE))
            ELSE ExecFail("post_deploy", Step("post", ex.i, FALSE))
    /\ UNCHANGED <<services, admission, deployments, jobs, history, histLock, nextId, call, ret,
                   trigIdx, startLog, doneLog, fanout>>

----------------------------------------------------------------------------
(* start_worker: the deployment worker's loop *)

\* if let Some(job) = queue.next_job().await { ... }; with None the worker
\* sleeps 100 ms and polls again
WorkerPoll ==
    /\ wpc = "poll"
    /\ next_job(Worker)
    /\ IF ret'[Worker] # NoJob
       THEN /\ wpc' = "mark_running"
            /\ result' = NoResult
            /\ fanout' = <<>>
       ELSE /\ wpc' = "poll"
            /\ result' = NoResult
            /\ fanout' = <<>>
    /\ UNCHANGED <<services, admission, deployments, ex, trigIdx, doneLog>>

\* queue.update_status(&job.id, JobStatus::Running), then executor.execute
\* is entered: start = now, output = "" and the first phase is chosen
WorkerMarkRunning ==
    /\ wpc = "mark_running"
    /\ update_status_begin(Worker, ret[Worker].id, "running")
    /\ wpc' = "execute"
    /\ LET first == StartPath(JobConfig)
       IN ex' = [phase |-> first[1], i |-> first[2], output |-> <<>>,
                 skipped |-> FALSE, trace |-> <<>>]
    /\ UNCHANGED <<services, admission, deployments, result, trigIdx, doneLog, fanout>>

\* let final_status = if result.success { Completed } else { Failed }
final_status_running(r) == "running"
final_status(r) == IF r.success THEN "completed" ELSE "failed"

\* queue.update_status(&job.id, final_status): its first critical section
WorkerFinalStatus ==
    /\ wpc = "final"
    /\ update_status_begin(Worker, ret[Worker].id, final_status(result))
    /\ wpc' = "finalizing"
    /\ ex' = IdleExec
    /\ doneLog' = IF call'[Worker].pc = "history"
                  THEN Append(doneLog, ret[Worker].id) ELSE doneLog
    /\ UNCHANGED <<services, admission, deployments, result, trigIdx, fanout>>

\* the rest of the worker's update_status call
WorkerUpdatePush ==
    /\ update_status_push(Worker)
    /\ UNCHANGED <<services, admission, deployments, wpc, ex, result, trigIdx, doneLog, fanout>>

WorkerUpdateTrim ==
    /\ update_status_trim(Worker)
    /\ UNCHANGED <<services, admission, deployments, wpc, ex, result, trigIdx, doneLog, fanout>>

WorkerUpdateRetain ==
    /\ update_status_retain(Worker)
    /\ UNCHANGED <<services, admission, deployments, wpc, ex, result, trigIdx, doneLog, fanout>>

\* if result.success && !result.skipped { if !job.config.trigger.is_empty()
\* { process_triggers(..) } }
FiresTriggersIgnoringSkip(r, cfg) == r.success /\ cfg.trigger # <<>>
FiresTriggers(r, cfg) == r.success /\ ~r.skipped /\ cfg.trigger # <<>>

\* update_status has returned: the branch on the result; without triggers
\* the iteration ends with the 100 ms sleep
WorkerBranch ==
    /\ wpc = "finalizing"
    /\ call[Worker].pc = "idle"
    /\ IF FiresTriggers(result, JobConfig)
       THEN wpc' = "triggers" /\ trigIdx' = 1
       ELSE wpc' = "poll" /\ trigIdx' = 0
    /\ UNCHANGED <<services, admission, deployments, jobs, history, histLock, nextId, call, ret,
                   ex, result, startLog, doneLog, fanout>>

\* process_triggers: what the loop does after a name that is not configured
\*   if !continue_on_failure { break; }
AfterMissingContinue(cfg, idx) == idx + 1
AfterMissing(cfg, idx) ==
    IF ~cfg.continue_on_failure THEN Len(cfg.trigger) + 1 ELSE idx + 1

\* process_triggers: one iteration of `for trigger_name in triggers`
WorkerTrigger ==
    /\ wpc = "triggers"
    /\ LET cfg == JobConfig
           trigger_name == cfg.trigger[trigIdx]
           trigger_config == FindDeployment(deployments, trigger_name)
           next == IF trigger_config # NoDeployment THEN trigIdx + 1
                   ELSE AfterMissing(cfg, trigIdx)
       IN /\ IF trigger_config # NoDeployment
             THEN /\ nextId <= MaxJobs
                  /\ jobs' = enqueue(jobs, DeployJob_new(nextId, trigger_name,
                                       TriggerSource(ret[Worker].deployment_name)))
                  /\ nextId' = nextId + 1
                  /\ fanout' = Append(fanout, nextId)
             ELSE UNCHANGED <<jobs, nextId, fanout>>
          /\ IF next > Len(cfg.trigger)
             THEN wpc' = "poll" /\ trigIdx' = 0
             ELSE wpc' = "triggers" /\ trigIdx' = next
    /\ UNCHANGED <<services, admission, deployments, history, histLock, call, ret, ex, result,
                   startLog, doneLog>>

----------------------------------------------------------------------------
(* Spec: the program as wired; SpecCancel: plus a cancelling handler *)

\* a webhook request for a configured deployment enqueues a job
WebhookDeploy ==
    \E name \in DeploymentNames :
        /\ trigger_deploy(name)
        /\ UNCHANGED <<services, admission, deployments, wpc, ex, result, trigIdx, doneLog, fanout>>

\* a request handler cancels a job
CancelRequest ==
    \E id \in 1..MaxJobs, ok \in BOOLEAN :
        /\ id < nextId
        /\ cancel(id, ok)
        /\ UNCHANGED <<services, admission, deployments, wpc, ex, result, trigIdx, doneLog, fanout>>

Next ==
    \/ WebhookDeploy
    \/ WorkerPoll
    \/ WorkerMarkRunning
    \/ ExecPath
    \/ ExecPre
    \/ ExecGitFiles
    \/ ExecMain
    \/ ExecPost
    \/ WorkerFinalStatus
    \/ WorkerUpdatePush
    \/ WorkerUpdateTrim
    \/ WorkerUpdateRetain
    \/ WorkerBranch
    \/ WorkerTrigger

Spec == Init /\ [][Next]_vars

NextCancel ==
    \/ Next
    \/ CancelRequest

SpecCancel == Init /\ [][NextCancel]_vars

\* the step of execute that is pending awaits a subprocess inside
\* tokio::time::timeout (ScriptRunner::run_command and run_script, with
\* default_timeout = 300 s whatever the deployment's `timeout` says), or
\* awaits no subprocess at all: it returns, with an Err at the latest when
\* the timer fires. GitDeploy::run_git_command and
\* DockerDeploy::run_compose_command await cmd.output() with no timer:
\* those steps return only if the external program exits.
AwaitBounded ==
    LET cfg == JobConfig
    IN CASE ex.phase \in {"path", "pre", "post"} -> TRUE
         [] ex.phase = "git_files" ->
                ~cfg.path \/ ~cfg.repo \/ ~parse_file_mappings(cfg.git_files).ok
         [] ex.phase = "main" ->
                \/ cfg.deploy_type = "custom_script"
                \/ ~cfg.path
         [] OTHER -> FALSE

\* the steps of DeployExecutor::execute
Exec == ExecPath \/ ExecPre \/ ExecGitFiles \/ ExecMain \/ ExecPost

\* the steps of the worker task outside execute
WorkerSteps ==
    \/ WorkerPoll
    \/ WorkerMarkRunning
    \/ WorkerFinalStatus
    \/ WorkerUpdatePush
    \/ WorkerUpdateTrim
    \/ WorkerUpdateRetain
    \/ WorkerBranch
    \/ WorkerTrigger

\* SpecLive: Spec with the progress the runtime gives: the worker task is
\* scheduled whenever it can run, and an await inside a timeout returns; an
\* external program with no timer around it may never exit, and requests
\* may stop arriving
SpecLive ==
    /\ Init /\ [][Next]_vars
    /\ WF_vars(WorkerSteps)
    /\ WF_vars(AwaitBounded /\ Exec)

\* the triggers of cfg that process_triggers finds configured: each is one
\* DeployJob::new
ConfiguredTriggers(cfg) ==
    SelectSeq(cfg.trigger, LAMBDA n : FindDeployment(deployments, n) # NoDeployment)

\* the DeployJob::new calls the jobs already enqueued may still make: the
\* fan-out of every job that is pending or running, and of the job the
\* worker has finished and not yet fanned out
RECURSIVE FanoutOf(_)
FanoutOf(js) ==
    IF js = <<>> THEN 0
    ELSE (IF Head(js).status \in {"pending", "running"}
          THEN Len(ConfiguredTriggers(FindDeployment(deployments,
                                                     Head(js).deployment_name)))
          ELSE 0) + FanoutOf(Tail(js))
Reserved ==
    FanoutOf(jobs) + (IF wpc \in {"finalizing", "triggers"}
                      THEN Len(ConfiguredTriggers(JobConfig)) ELSE 0)

\* a webhook request that enqueues a job while the behaviour's MaxJobs
\* leave room for it and for every fan-out that can follow
WebhookDeployRoom ==
    \E name \in DeploymentNames :
        /\ nextId + Reserved
             + Len(ConfiguredTriggers(FindDeployment(deployments, name))) <= MaxJobs
        /\ trigger_deploy(name)
        /\ UNCHANGED <<services, admission, deployments, wpc, ex, result, trigIdx, doneLog, fanout>>

NextWorker ==
    \/ WebhookDeployRoom
    \/ CancelRequest
    \/ WorkerPoll
    \/ WorkerMarkRunning
    \/ ExecPath
    \/ ExecPre
    \/ ExecGitFiles
    \/ ExecMain
    \/ ExecPost
    \/ WorkerFinalStatus
    \/ WorkerUpdatePush
    \/ WorkerUpdateTrim
    \/ WorkerUpdateRetain
    \/ WorkerBranch
    \/ WorkerTrigger

\* SpecWorker: the worker task is scheduled whenever it can run and every
\* executor call returns; requests arrive, or stop arriving, at any time
SpecWorker ==
    /\ Init /\ [][NextWorker]_vars
    /\ WF_vars(WorkerSteps)
    /\ WF_vars(Exec)
----------------------------------------------------------------------------
(* SpecChain: the worker's loop job by job. A job is told from another by  *)
(* the deployment it names and by its place in the queue; its id and the   *)
(* records of what ran are left out, so a behaviour of endlessly many jobs *)
(* is a cycle through finitely many states.                                *)

\* webhook requests in one behaviour
MaxWebhooks == 3

CycleA == DeploymentConfig("A", "git_pull", TRUE, TRUE, <<"p1">>, <<"q1">>,
                           <<<<"f", ":", "t">>>>, <<"B">>, FALSE, <<>>)
CycleB == DeploymentConfig("B", "custom_script", FALSE, FALSE, <<>>, <<>>,
                           <<>>, <<"A">>, FALSE, <<>>)

\* process_triggers from the idx-th trigger on: the deployments it enqueues,
\* in order
RECURSIVE Triggered(_, _)
Triggered(cfg, idx) ==
    IF idx > Len(cfg.trigger) THEN <<>>
    ELSE IF FindDeployment(deployments, cfg.trigger[idx]) # NoDeployment
    THEN <<cfg.trigger[idx]>> \o Triggered(cfg, idx + 1)
    ELSE Triggered(cfg, AfterMissing(cfg, idx))

\* webhook_deploy for a configured deployment: queue.enqueue(job)
chain_webhook ==
    /\ chain.webhooks < MaxWebhooks
    /\ \E k \in 1..Len(deployments) :
          chain' = [chain EXCEPT !.webhooks = @ + 1,
                                 !.pending = Append(@, deployments[k].name)]
    /\ UNCHANGED <<pipeline, admission, but_chain>>

\* start_worker: queue.next_job() returns the oldest pending job and
\* update_status(Running)
chain_next_job ==
    /\ chain.running = <<>>
    /\ chain.pending # <<>>
    /\ chain' = [chain EXCEPT !.running = <<Head(chain.pending)>>,
                              !.pending = Tail(@)]
    /\ UNCHANGED <<pipeline, admission, but_chain>>

\* start_worker: executor.execute(&job) returns, update_status(final) moves
\* the job to the history, and process_triggers runs after a success that
\* was not skipped
chain_execute ==
    /\ chain.running # <<>>
    /\ \E success \in BOOLEAN, skipped \in BOOLEAN :
          LET cfg == FindDeployment(deployments, chain.running[1])
              r == [success |-> success, skipped |-> skipped]
          IN /\ skipped => success
             /\ chain' = [chain EXCEPT
                            !.running = <<>>,
                            !.pending = IF FiresTriggers(r, cfg)
                                        THEN @ \o Triggered(cfg, 1) ELSE @]
    /\ UNCHANGED <<pipeline, admission, but_chain>>

InitChain ==
    /\ deployments \in {<<CycleA, CycleB>>}
                         \cup {<<p, ChildA, ChildB>> : p \in ParentVariants}
    /\ config = ServerConfig(FALSE, <<>>)
    /\ InitState
    /\ InitServices

NextChain ==
    \/ chain_webhook
    \/ chain_next_job
    \/ chain_execute

\* the worker task is scheduled whenever it can run and every executor
\* call returns
SpecChain ==
    /\ InitChain /\ [][NextChain]_vars
    /\ WF_vars(chain_next_job)
    /\ WF_vars(chain_execute)


----------------------------------------------------------------------------
(* Graceful shutdown: server::run and shutdown::signal *)

\* shutdown::signal resolves (Ctrl+C, SIGTERM or SIGHUP): axum::serve's
\* with_graceful_shutdown stops accepting connections
signal ==
    /\ proc = "serving"
    /\ proc' = "draining"
    /\ UNCHANGED <<pipeline, admission, but_proc>>

\* axum::serve(..).await returns once no connection is in flight (a
\* webhook request is one step here, so none is): run returns Ok(()), main
\* returns and the runtime is dropped with every task tokio::spawn started,
\* the deployment worker among them, wherever it stands; nothing joins the
\* worker or waits for the queue
run_returns ==
    /\ proc = "draining"
    /\ proc' = "exited"
    /\ UNCHANGED <<pipeline, admission, but_proc>>

\* the listener accepts a connection only while serving
Accept == proc = "serving" /\ WebhookDeploy

\* the spawned worker task runs as long as the process lives
WorkerTask == proc # "exited" /\ (WorkerSteps \/ Exec)

NextShutdown ==
    \/ Accept
    \/ WorkerTask
    \/ signal
    \/ run_returns

SpecShutdown == Init /\ [][NextShutdown]_vars

----------------------------------------------------------------------------
(* The metrics store: Database, aggregate_hourly and the retention sweep *)

\* rows inserted into metrics_raw, and advances of the clock, in one
\* behaviour
MaxSamples == 2
MaxAdvances == 3

\* the calendar date of an instant, and strftime('%Y-%m-%dT%H:00:00Z', t)
DateOf(t) == t \div TicksPerDay
hour_start(t) == (t \div TicksPerHour) * TicksPerHour

\* `column < datetime('now', modifier)` and `column >= datetime(..)` compare
\* TEXT: the column holds RFC 3339 ("2024-01-05T10:00:00Z", written by
\* format_rfc3339 and by the strftime above) and datetime() yields
\* "2024-01-05 09:00:00". The date prefixes order as the dates do; on equal
\* dates the column's 'T' is greater than the space, whatever the hours.
TextLess(column, threshold) == DateOf(column) < DateOf(threshold)

\* Database::insert_metric: one INSERT under the connection lock; the
\* caller supplies collected_at (now, or a late sample of the half hour
\* before)
insert_metric(agent_name, collected_at) ==
    /\ store.nextRow <= MaxSamples
    /\ store' = [store EXCEPT
          !.raw = @ \cup {[id |-> store.nextRow, agent_name |-> agent_name,
                           collected_at |-> collected_at]},
          !.nextRow = @ + 1]
    /\ UNCHANGED <<pipeline, admission, but_store>>

\* aggregate_hourly: INSERT OR REPLACE INTO metrics_hourly SELECT .. FROM
\* metrics_raw WHERE collected_at >= datetime('now', '-2 hours') GROUP BY
\* agent_name, hour_start; UNIQUE(agent_name, hour_start) makes a new row
\* replace the old one of its key
aggregate_hourly ==
    LET selected == {r \in store.raw :
                        ~TextLess(r.collected_at, store.clock - 2 * TicksPerHour)}
        Key(r) == <<r.agent_name, hour_start(r.collected_at)>>
        groups == {Key(r) : r \in selected}
        rows == {[agent_name |-> g[1], hour_start |-> g[2],
                  samples_count |-> Cardinality({r \in selected : Key(r) = g})]
                 : g \in groups}
        kept == {h \in store.hourly : <<h.agent_name, h.hour_start>> \notin groups}
    IN /\ store' = [store EXCEPT !.hourly = kept \cup rows]
       /\ UNCHANGED <<pipeline, admission, but_store>>

\* run_retention_cleanup, its three statements each under its own
\* acquisition of the connection lock.
\* cleanup_old_metrics: DELETE FROM metrics_raw WHERE collected_at <
\* datetime('now', '-<days> days')
cleanup_old_metrics ==
    /\ store.sweep = "idle"
    /\ store' = [store EXCEPT
          !.raw = {r \in @ : ~TextLess(r.collected_at,
                                       store.clock - store.raw_days * TicksPerDay)},
          !.sweep = "hourly"]
    /\ UNCHANGED <<pipeline, admission, but_store>>

\* cleanup_old_hourly: DELETE FROM metrics_hourly WHERE hour_start <
\* datetime('now', '-<days> days')
cleanup_old_hourly ==
    /\ store.sweep = "hourly"
    /\ store' = [store EXCEPT
          !.hourly = {h \in @ : ~TextLess(h.hour_start,
                                          store.clock - store.hourly_days * TicksPerDay)},
          !.sweep = "daily"]
    /\ UNCHANGED <<pipeline, admission, but_store>>

\* cleanup_old_daily acts on metrics_daily alone, which neither of the two
\* tables here depends on; the sweep returns
cleanup_old_daily ==
    /\ store.sweep = "daily"
    /\ store' = [store EXCEPT !.sweep = "idle"]
    /\ UNCHANGED <<pipeline, admission, but_store>>

\* time passes: half an hour, or a day
Advance ==
    /\ (store.clock \div TicksPerDay) + (store.clock % TicksPerDay) < MaxAdvances
    /\ \E d \in {1, TicksPerDay} : store' = [store EXCEPT !.clock = @ + d]
    /\ UNCHANGED <<pipeline, admission, but_store>>

InitStorage ==
    /\ deployments = <<ChildA, ChildB>>
    /\ config = ServerConfig(FALSE, <<>>)
    /\ InitState
    /\ proc = "serving"
    /\ store \in {Database_new(v[1], v[2]) : v \in RetentionVariants}
    /\ sync = ConfigSync_new(TRUE)
    /\ upd = Updater_new(FALSE)
    /\ fetch = GitDeploy_new(NoLinks)
    /\ script = ScriptRunner_new(<<"a">>, "")
    /\ loader = Loader_new(NoFiles)
    /\ mapped = Parse_new(<<>>)
    /\ view = IdleView
    /\ chain = IdleChain

NextStorage ==
    \/ \E agent_name \in Agents, late \in {0, 1} :
          /\ store.clock - late >= 0
          /\ insert_metric(agent_name, store.clock - late)
    \/ aggregate_hourly
    \/ cleanup_old_metrics
    \/ cleanup_old_hourly
    \/ cleanup_old_daily
    \/ Advance

SpecStorage == InitStorage /\ [][NextStorage]_vars

----------------------------------------------------------------------------
(* Config sync: ConfigSync::sync *)

\* sync returns
SyncReturn(s, res) == [s EXCEPT !.pc = "idle", !.result = res]

\* sync up to the validation: fetch_remote_config, read_local_config, the
\* comparison of the hashes and validate_config
sync_begin ==
    /\ sync.pc = "idle"
    /\ sync.calls < MaxSyncs
    /\ \E fetched \in BOOLEAN, remote_content \in RemoteContents :
          LET s == [sync EXCEPT !.calls = @ + 1, !.remote = remote_content,
                                !.old = sync.file, !.oldBackups = sync.backups]
              local_content == sync.file
          IN sync' =
               IF ~fetched THEN SyncReturn([s EXCEPT !.remote = EmptyContent],
                                           "Err fetch")
               ELSE IF compute_hash(remote_content) = compute_hash(local_content)
               THEN SyncReturn(s, "Ok unchanged")
               ELSE IF validate_config(remote_content) # "Ok"
               THEN SyncReturn(s, "Err invalid")
               ELSE [s EXCEPT !.pc = IF sync.backup THEN "backup" ELSE "create",
                              !.result = "none"]
    /\ UNCHANGED <<pipeline, admission, but_sync>>

\* create_backup: fs::copy of the config file into the backup directory,
\* then cleanup_backups(5) keeps the newest five
create_backup ==
    /\ sync.pc = "backup"
    /\ \E ok \in BOOLEAN :
          sync' = IF ok
                  THEN [sync EXCEPT !.pc = "create",
                                    !.backups = LastN(Append(@, sync.file), keep)]
                  ELSE SyncReturn(sync, "Err backup")
    /\ UNCHANGED <<pipeline, admission, but_sync>>

\* File::create(&self.config_path): opens the config file itself and
\* truncates it
File_create ==
    /\ sync.pc = "create"
    /\ \E ok \in BOOLEAN :
          sync' = IF ok
                  THEN [sync EXCEPT !.pc = "write", !.file = EmptyContent]
                  ELSE SyncReturn(sync, "Err create")
    /\ UNCHANGED <<pipeline, admission, but_sync>>

\* file.write_all(remote_content): all the bytes, or an error after none or
\* some of them
write_all ==
    /\ sync.pc = "write"
    /\ \E written \in {"all", "some", "none"} :
          sync' = CASE written = "all" ->
                         [sync EXCEPT !.pc = "sync_all", !.file = sync.remote]
                    [] written = "some" ->
                         SyncReturn([sync EXCEPT !.file = Partial(sync.remote)],
                                    "Err write")
                    [] OTHER -> SyncReturn(sync, "Err write")
    /\ UNCHANGED <<pipeline, admission, but_sync>>

\* file.sync_all() and the Ok(ConfigSyncResult { changed: true, .. })
sync_all ==
    /\ sync.pc = "sync_all"
    /\ \E ok \in BOOLEAN :
          sync' = SyncReturn(sync, IF ok THEN "Ok changed" ELSE "Err sync_all")
    /\ UNCHANGED <<pipeline, admission, but_sync>>

InitSync ==
    /\ deployments = <<ChildA, ChildB>>
    /\ config = ServerConfig(FALSE, <<>>)
    /\ InitState
    /\ proc = "serving"
    /\ store = Database_new(7, 30)
    /\ sync \in {ConfigSync_new(b) : b \in BOOLEAN}
    /\ upd = Updater_new(FALSE)
    /\ fetch = GitDeploy_new(NoLinks)
    /\ script = ScriptRunner_new(<<"a">>, "")
    /\ loader = Loader_new(NoFiles)
    /\ mapped = Parse_new(<<>>)
    /\ view = IdleView
    /\ chain = IdleChain

NextSync ==
    \/ sync_begin
    \/ create_backup
    \/ File_create
    \/ write_all
    \/ sync_all

SpecSync == InitSync /\ [][NextSync]_vars

----------------------------------------------------------------------------
(* The updater: start_update_checker, Updater::check_for_updates,
   Updater::self_update and BinaryUpdater::replace_binary *)

\* check_for_updates returns Err(e) to start_update_checker, which stores
\* it: state.last_error = Some(e)
CheckFailed(u, e) ==
    [u EXCEPT !.state.last_error = <<e>>, !.failed = <<e>>]

\* self_update returns Err(e) to start_update_checker, which logs
\* "Auto-update failed"
UpdateFailed(u, e) ==
    [u EXCEPT !.pc = "idle", !.result = "Err", !.failed = <<e>>]

\* one turn of start_update_checker's loop up to the call of self_update:
\* check_for_updates and the match on its result
check_for_updates ==
    /\ upd.pc = "idle"
    /\ upd.checks < MaxChecks
    /\ \E fetched \in BOOLEAN, release \in Releases :
          LET u == [upd EXCEPT !.checks = @ + 1, !.called = FALSE,
                               !.failed = <<>>, !.result = "none",
                               !.requires_restart = FALSE]
              remote_version == release.tag_name
              update_available == is_newer_version(current_version, remote_version)
          IN upd' =
               IF ~fetched THEN CheckFailed(u, "Failed to fetch release")
               ELSE IF ~update_available.ok
               THEN CheckFailed(u, "Invalid remote version")
               ELSE [u EXCEPT
                       !.state = UpdaterState(<<remote_version>>,
                                              update_available.newer, <<>>),
                       !.pc = IF update_available.newer /\ upd.auto_update
                              THEN "self_update" ELSE "idle"]
    /\ UNCHANGED <<pipeline, admission, but_upd>>

\* self_update up to the call of replace_binary: get_latest_release,
\* is_newer_version, find_binary_asset, download_asset, download_checksum,
\* extract_from_tarball, parse_checksum and verify_checksum
self_update ==
    /\ upd.pc = "self_update"
    /\ \E fetched \in BOOLEAN, downloaded \in BOOLEAN,
          checksum_downloaded \in BOOLEAN, release \in Releases :
          LET u == [upd EXCEPT !.called = TRUE, !.release = release,
                               !.binary = "", !.expected = <<>>,
                               !.exe0 = upd.exe, !.backups0 = upd.backups,
                               !.temp0 = upd.temp]
              remote_version == release.tag_name
              newer == is_newer_version(current_version, remote_version)
              found == find_binary_asset(release)
              asset == Head(found)
              tarball == ends_with(asset.name, <<".tar.gz">>)
              final_binary == IF tarball THEN asset.member ELSE asset.bytes
              checksum_result == release.found /\ checksum_downloaded
              expected == IF checksum_result
                          THEN parse_checksum(release.checksums, asset.name)
                          ELSE [some |-> FALSE, hash |-> Hex("", FALSE)]
          IN upd' =
               IF ~fetched
               THEN UpdateFailed([u EXCEPT !.release = NoRelease],
                                 "Failed to fetch release")
               ELSE IF ~newer.ok THEN UpdateFailed(u, "Invalid remote version")
               ELSE IF ~newer.newer
               THEN [u EXCEPT !.pc = "idle", !.result = "Already up to date",
                              !.requires_restart = FALSE]
               ELSE IF found = <<>>
               THEN UpdateFailed(u, "No compatible binary found in release")
               ELSE IF ~downloaded THEN UpdateFailed(u, "Failed to download asset")
               ELSE IF tarball /\ asset.member = ""
               THEN UpdateFailed(u, "Binary not found in archive")
               ELSE IF ends_with(asset.name, <<".zip">>)
               THEN UpdateFailed(u, "ZIP archives not yet supported")
               ELSE IF expected.some /\ ~verify_checksum(final_binary, expected.hash)
               THEN UpdateFailed([u EXCEPT !.binary = final_binary,
                                           !.expected = <<expected.hash>>],
                                 "Checksum mismatch")
               ELSE [u EXCEPT !.pc = "backup", !.binary = final_binary,
                              !.expected = IF expected.some
                                           THEN <<expected.hash>> ELSE <<>>]
    /\ UNCHANGED <<pipeline, admission, but_upd>>

\* replace_binary: create_dir_all(backup_dir) and fs::copy of the current
\* executable into it
replace_binary_backup ==
    /\ upd.pc = "backup"
    /\ \E ok \in BOOLEAN :
          upd' = IF ok
                 THEN [upd EXCEPT !.pc = "temp", !.backups = Append(@, upd.exe)]
                 ELSE UpdateFailed(upd, "Failed to backup current binary")
    /\ UNCHANGED <<pipeline, admission, but_upd>>

\* replace_binary: the new binary written to <exe>.new (File::create,
\* write_all, sync_all, set_permissions)
replace_binary_temp ==
    /\ upd.pc = "temp"
    /\ \E outcome \in {"written", "not created", "partly written"} :
          upd' = CASE outcome = "written" ->
                        [upd EXCEPT !.pc = "rename", !.temp = upd.binary]
                   [] outcome = "not created" ->
                        UpdateFailed(upd, "Failed to create temp file")
                   [] OTHER ->
                        UpdateFailed([upd EXCEPT !.temp = "first bytes"],
                                     "Failed to write new binary")
    /\ UNCHANGED <<pipeline, admission, but_upd>>

\* replace_binary: fs::rename of <exe>.new onto the executable; on failure
\* the backup is copied back over the executable, which the failed rename
\* left as it was. On success cleanup_backups(3), then self_update updates
\* the state and returns Ok with requires_restart.
replace_binary_rename ==
    /\ upd.pc = "rename"
    /\ \E ok \in BOOLEAN :
          upd' = IF ok
                 THEN [upd EXCEPT
                         !.pc = "restart", !.exe = upd.temp, !.temp = "",
                         !.backups = LastN(@, keep_backups),
                         !.state.update_available = FALSE,
                         !.state.latest_version = <<upd.release.tag_name>>,
                         !.result = "Binary updated successfully",
                         !.requires_restart = TRUE]
                 ELSE UpdateFailed(upd, "Failed to replace binary")
    /\ UNCHANGED <<pipeline, admission, but_upd>>

\* start_update_checker after Ok(result) with requires_restart:
\* signal_systemd_restart replaces the process, or fails and is logged
signal_systemd_restart ==
    /\ upd.pc = "restart"
    /\ \E ok \in BOOLEAN :
          upd' = [upd EXCEPT !.pc = IF ok THEN "restarted" ELSE "idle"]
    /\ UNCHANGED <<pipeline, admission, but_upd>>

InitUpdater ==
    /\ deployments = <<ChildA, ChildB>>
    /\ config = ServerConfig(FALSE, <<>>)
    /\ InitState
    /\ proc = "serving"
    /\ store = Database_new(7, 30)
    /\ sync = ConfigSync_new(TRUE)
    /\ upd \in {Updater_new(auto_update) : auto_update \in BOOLEAN}
    /\ fetch = GitDeploy_new(NoLinks)
    /\ script = ScriptRunner_new(<<"a">>, "")
    /\ loader = Loader_new(NoFiles)
    /\ mapped = Parse_new(<<>>)
    /\ view = IdleView
    /\ chain = IdleChain

NextUpdater ==
    \/ check_for_updates
    \/ self_update
    \/ replace_binary_backup
    \/ replace_binary_temp
    \/ replace_binary_rename
    \/ signal_systemd_restart

SpecUpdater == InitUpdater /\ [][NextUpdater]_vars

----------------------------------------------------------------------------
(* File fetch: GitDeploy::fetch_files *)

\* fetch_files returns
FetchReturn(f, res) == [f EXCEPT !.pc = "idle", !.result = res]

\* fetch_files up to the loop: create_dir_all(dest_path), the temporary
\* directory and the shallow clone into it
fetch_files ==
    /\ fetch.pc = "idle"
    /\ fetch.fetches < MaxFetches
    /\ \E file_mappings \in MappingLists, cloned \in BOOLEAN :
          LET made == create_dir_all(fetch.disk, dest_path)
              f == [fetch EXCEPT !.fetches = @ + 1,
                                 !.file_mappings = file_mappings, !.i = 1,
                                 !.disk = made.fs, !.disk0 = fetch.disk,
                                 !.wrote = {}, !.passed = {}, !.copied = {},
                                 !.result = "none"]
          IN fetch' = IF ~made.ok THEN FetchReturn(f, "Err create directory")
                      ELSE IF ~cloned THEN FetchReturn(f, "Err git clone failed")
                      ELSE [f EXCEPT !.pc = "copy"]
    /\ UNCHANGED <<pipeline, admission, but_fetch>>

\* one turn of `for (from, to) in file_mappings`:
\* validate_path_containment(base_path, &dst_raw)?, then the directory is
\* copied (create_dir_all(&dst) and copy_dir_recursive, which copies the
\* file app.conf into it) or the file is (fs::copy(&src, &dst))
fetch_files_copy ==
    /\ fetch.pc = "copy"
    /\ fetch.i <= Len(fetch.file_mappings)
    /\ LET m == fetch.file_mappings[fetch.i]
           dst_raw == dest_path \o m.to
           checked == validate_path_containment(fetch.disk, dest_path, dst_raw)
           dst == checked.dst
           f == [fetch EXCEPT !.disk = checked.fs]
           made == create_dir_all(checked.fs, dst)
           into == IF m.slash THEN Append(dst, "app.conf") ELSE dst
           copy == fs_copy(IF m.slash THEN made.fs ELSE checked.fs, into)
           g == [f EXCEPT !.passed = @ \cup {dst}]
       IN fetch' =
            IF ~checked.ok THEN FetchReturn(f, "Err path traversal detected")
            ELSE IF m.slash /\ m.from # "dir"
            THEN FetchReturn(g, "Err expected directory")
            ELSE IF m.slash /\ ~made.ok
            THEN FetchReturn(g, "Err failed to create dir")
            ELSE IF ~m.slash /\ m.from = "missing"
            THEN FetchReturn(g, "Err file not found in repo")
            ELSE IF ~m.slash /\ m.from = "dir"
            THEN FetchReturn([g EXCEPT !.copied = @ \cup {into}],
                             "Err failed to copy")
            ELSE IF ~copy.ok
            THEN FetchReturn([g EXCEPT !.copied = @ \cup {into},
                                       !.disk = IF m.slash THEN made.fs ELSE @],
                             "Err failed to copy")
            ELSE [g EXCEPT !.copied = @ \cup {into}, !.disk = copy.fs,
                           !.wrote = @ \cup copy.wrote, !.i = @ + 1]
    /\ UNCHANGED <<pipeline, admission, but_fetch>>

\* Ok(output) after the last mapping
fetch_files_return ==
    /\ fetch.pc = "copy"
    /\ fetch.i > Len(fetch.file_mappings)
    /\ fetch' = FetchReturn(fetch, "Ok")
    /\ UNCHANGED <<pipeline, admission, but_fetch>>

InitFetch ==
    /\ deployments = <<ChildA, ChildB>>
    /\ config = ServerConfig(FALSE, <<>>)
    /\ InitState
    /\ proc = "serving"
    /\ store = Database_new(7, 30)
    /\ sync = ConfigSync_new(TRUE)
    /\ upd = Updater_new(FALSE)
    /\ fetch \in {GitDeploy_new(disk) : disk \in Disks}
    /\ script = ScriptRunner_new(<<"a">>, "")
    /\ loader = Loader_new(NoFiles)
    /\ mapped = Parse_new(<<>>)
    /\ view = IdleView
    /\ chain = IdleChain

NextFetch ==
    \/ fetch_files
    \/ fetch_files_copy
    \/ fetch_files_return

SpecFetch == InitFetch /\ [][NextFetch]_vars

----------------------------------------------------------------------------
(* Inline commands: ScriptRunner::run_command *)

\* run_command up to cmd.output(): validate_command(command)?, then the
\* Command is built (sudo -u user sh -c command, or sh -c command) and
\* spawned
run_command ==
    /\ script.pc = "idle"
    /\ ~script.called
    /\ LET command == script.command
           run_as_user == script.run_as_user
           s == [script EXCEPT !.called = TRUE]
           argv == IF run_as_user # ""
                   THEN <<"sudo", "-u", run_as_user, "sh", "-c", command>>
                   ELSE <<"sh", "-c", command>>
       IN script' =
            IF validate_command(command) # 0
            THEN [s EXCEPT !.result = "Err forbidden pattern"]
            ELSE [s EXCEPT !.pc = "output", !.spawned = Append(@, argv)]
    /\ UNCHANGED <<pipeline, admission, but_script>>

\* timeout(default_timeout, cmd.output()).await and the exit status
run_command_output ==
    /\ script.pc = "output"
    /\ \E outcome \in {"Ok", "Err exit code", "Err timed out",
                       "Err failed to execute"} :
          script' = [script EXCEPT !.pc = "idle", !.result = outcome]
    /\ UNCHANGED <<pipeline, admission, but_script>>

InitScript ==
    /\ deployments = <<ChildA, ChildB>>
    /\ config = ServerConfig(FALSE, <<>>)
    /\ InitState
    /\ proc = "serving"
    /\ store = Database_new(7, 30)
    /\ sync = ConfigSync_new(TRUE)
    /\ upd = Updater_new(FALSE)
    /\ fetch = GitDeploy_new(NoLinks)
    /\ script \in {ScriptRunner_new(command, run_as_user) :
                       command \in Commands, run_as_user \in {"", "deploy"}}
    /\ loader = Loader_new(NoFiles)
    /\ mapped = Parse_new(<<>>)
    /\ view = IdleView
    /\ chain = IdleChain

NextScript ==
    \/ run_command
    \/ run_command_output

SpecScript == InitScript /\ [][NextScript]_vars
----------------------------------------------------------------------------
(* Configuration load: config::load *)

\* load up to the merge: the main file is read and parsed (any error
\* returns it), and load_external_deployments runs when the path is set
load_read ==
    /\ loader.pc = "start"
    /\ loader' =
         IF ~loader.files.main.parses
         THEN [loader EXCEPT !.pc = "done", !.result = "Err"]
         ELSE [loader EXCEPT
                 !.pc = "merge",
                 !.deployments = DeploymentsOf(-1, loader.files.main),
                 !.external = IF loader.files.path
                              THEN load_external_deployments(loader.files)
                              ELSE [ok |-> TRUE, deployments |-> <<>>]]
    /\ UNCHANGED <<pipeline, admission, but_loader>>

\* the merge of the external deployments (a failed external load is only
\* warned about), validate, which does not look at the names, and
\* Ok(config)
load_merge ==
    /\ loader.pc = "merge"
    /\ \E valid \in BOOLEAN :
          LET base_names == {loader.deployments[i].name :
                                 i \in 1..Len(loader.deployments)}
              merged == IF loader.external.ok
                        THEN MergeExternal(loader.deployments, base_names,
                                           loader.external.deployments)
                        ELSE loader.deployments
          IN loader' = [loader EXCEPT !.pc = "done", !.deployments = merged,
                                      !.result = IF valid THEN "Ok" ELSE "Err"]
    /\ UNCHANGED <<pipeline, admission, but_loader>>

InitLoad ==
    /\ deployments = <<ChildA, ChildB>>
    /\ config = ServerConfig(FALSE, <<>>)
    /\ InitState
    /\ proc = "serving"
    /\ store = Database_new(7, 30)
    /\ sync = ConfigSync_new(TRUE)
    /\ upd = Updater_new(FALSE)
    /\ fetch = GitDeploy_new(NoLinks)
    /\ script = ScriptRunner_new(<<"a">>, "")
    /\ mapped = Parse_new(<<>>)
    /\ view = IdleView
    /\ chain = IdleChain
    /\ loader \in {Loader_new(ConfigFiles(main, path, single, dir)) :
                       main \in FileContents, path \in BOOLEAN,
                       single \in {<<>>} \cup {<<c>> : c \in FileContents},
                       dir \in {<<>>} \cup [{1} -> FileContents]
                                      \cup [{1, 2} -> {FileContent(TRUE, <<n>>) :
                                                          n \in LoadNames}]}

NextLoad ==
    \/ load_read
    \/ load_merge

SpecLoad == InitLoad /\ [][NextLoad]_vars
----------------------------------------------------------------------------
(* File mappings: parse_file_mappings *)

\* parse_file_mappings(&config.git_files) is called and returns
parse ==
    /\ mapped.result = <<>>
    /\ mapped' = [mapped EXCEPT !.result = <<parse_file_mappings(mapped.files)>>]
    /\ UNCHANGED <<pipeline, admission, but_mapped>>

InitParse ==
    /\ deployments = <<ChildA, ChildB>>
    /\ config = ServerConfig(FALSE, <<>>)
    /\ InitState
    /\ proc = "serving"
    /\ store = Database_new(7, 30)
    /\ sync = ConfigSync_new(TRUE)
    /\ upd = Updater_new(FALSE)
    /\ fetch = GitDeploy_new(NoLinks)
    /\ script = ScriptRunner_new(<<"a">>, "")
    /\ loader = Loader_new(NoFiles)
    /\ mapped \in {Parse_new(files) : files \in FileLists}
    /\ view = IdleView
    /\ chain = IdleChain

NextParse == parse

SpecParse == InitParse /\ [][NextParse]_vars



----------------------------------------------------------------------------
(* Bearer tokens: JwtManager (src/server/auth.rs) *)

\* Claims::is_expired: Utc::now().timestamp() > self.exp
is_expired(claims, t) == t > claims.exp

\* decode::<Claims>(token, &decoding_key, &validation): the signature
\* verifies under the secret and iss is the issuer set by set_issuer. (The
\* library also rejects a token whose exp lies further back than its leeway;
\* is_expired rejects every such token as well.)
decode_any_issuer(token, secret) == token.key = secret
decode(token, secret) == token.key = secret /\ token.iss = "infractl"

\* JwtManager::validate_token at time t: "Ok", or the JwtError variant
validate_token(token, secret, t) ==
    IF ~decode(token, secret) THEN "Decode"
    ELSE IF is_expired(token, t) THEN "Expired"
    ELSE "Ok"

----------------------------------------------------------------------------
(* RateLimiter (src/server/middleware.rs) *)

\* Instant::duration_since saturates to zero for a later instant
duration_since(a, b) == IF a >= b THEN a - b ELSE 0

\* requests.entry(ip).or_insert_with(Vec::new)
EntryOf(ip) == IF ip \in DOMAIN limiter THEN limiter[ip] ELSE <<>>

\* entry.retain(|&t| now.duration_since(t) < self.window)
RetainWindow(entry, t0) ==
    SelectSeq(entry, LAMBDA t : duration_since(t0, t) < window)

\* if entry.len() >= self.max_requests { return false; }
CheckAccepts(c) == Len(RetainWindow(EntryOf(c.ip), c.now)) < max_requests

\* check, up to the lock: let now = Instant::now(); then it awaits
\* self.requests.write()
check_sample(k, ip) ==
    /\ chk[k].pc = "idle"
    /\ chk' = [chk EXCEPT ![k] = [pc |-> "lock", ip |-> ip, now |-> now]]

\* check, under the write lock: retain, compare, push
check_locked(k) ==
    LET c == chk[k]
        kept == RetainWindow(EntryOf(c.ip), c.now)
        entry == IF CheckAccepts(c) THEN Append(kept, c.now) ELSE kept
    IN /\ c.pc = "lock"
       /\ limiter' = [ip \in DOMAIN limiter \cup {c.ip} |->
                        IF ip = c.ip THEN entry ELSE limiter[ip]]
       /\ admitted' = IF CheckAccepts(c)
                      THEN Append(admitted, [ip |-> c.ip, now |-> c.now, at |-> now])
                      ELSE admitted
       /\ chk' = [chk EXCEPT ![k] = IdleCheck]

\* time passes
Tick ==
    /\ now < MaxTime
    /\ now' = now + 1
    /\ UNCHANGED <<services, pipeline, config, limiter, req, chk, suspicious, admitted>>

----------------------------------------------------------------------------
(* The admission pipeline: create_router and the middleware functions *)

\* create_router's from_fn layers in the order of its .layer(..) calls
LayerCallsAuthLast ==
    <<"request_timing", "rate_limiting", "network_isolation", "jwt_auth">>
LayerCalls ==
    <<"request_timing", "rate_limiting", "jwt_auth", "network_isolation">>

Reverse(s) == [i \in 1..Len(s) |-> s[Len(s) + 1 - i]]

\* Router::layer wraps the router built so far, so the layer added last
\* is the outermost: the stack a request descends, outermost first
Stack == Reverse(LayerCalls)

\* the routes of routes::common and routes::agent the requests use
RouteShutdownQueued(path) ==
    CASE path = "/health" -> [handler |-> "health_check", name |-> ""]
      [] path = "/webhook/deploy/A" -> [handler |-> "trigger_deploy", name |-> "A"]
      [] path = "/webhook/shutdown/A" -> [handler |-> "trigger_deploy", name |-> "A"]
      [] path = "/webhook/shutdown/B" -> [handler |-> "trigger_deploy", name |-> "B"]
Route(path) ==
    CASE path = "/health" -> [handler |-> "health_check", name |-> ""]
      [] path = "/webhook/deploy/A" -> [handler |-> "trigger_deploy", name |-> "A"]
      [] path = "/webhook/shutdown/A" -> [handler |-> "trigger_shutdown", name |-> "A"]
      [] path = "/webhook/shutdown/B" -> [handler |-> "trigger_shutdown", name |-> "B"]

\* a request arrives: the peer address and the request line
arrive(i) ==
    /\ req[i].pc = "none"
    /\ \A k \in 1..(i - 1) : req[k].pc # "none"
    /\ \E ip \in IPs, path \in Paths :
          req' = [req EXCEPT ![i] =
                    [pc |-> "layer", depth |-> 1, ip |-> ip, path |-> path,
                     auth |-> NoHeader, authAt |-> 0, hdr |-> NoHeaders,
                     step |-> 0, status |-> 0, job |-> 0, trace |-> <<>>]]
    /\ UNCHANGED <<services, pipeline, config, now, limiter, chk, suspicious, admitted>>

\* request i is about to run this layer
Running(i, layer) == req[i].pc = "layer" /\ Stack[req[i].depth] = layer

\* next.run(request): the next layer inwards or, below the innermost, the
\* routed handler
NextRun(r, events) ==
    [r EXCEPT !.trace = @ \o events,
              !.depth = @ + 1,
              !.pc = IF r.depth >= Len(Stack) THEN "handler" ELSE "layer"]

\* a layer or a handler returns a response without calling next.run
ReplyAndRun(r, events, status) == NextRun([r EXCEPT !.status = status], events)
Reply(r, events, status) ==
    [r EXCEPT !.trace = @ \o events, !.status = status, !.pc = "respond"]

\* log_suspicious_request(ip, method, path, reason)
log_suspicious_request(i, reason) ==
    suspicious' = Append(suspicious, [req |-> i, ip |-> req[i].ip,
                                      path |-> req[i].path, reason |-> reason])

\* network_isolation
network_isolation(i) ==
    /\ Running(i, "network_isolation")
    /\ IF ~config.isolation_mode
       THEN /\ req' = [req EXCEPT ![i] = NextRun(@, <<"network_isolation">>)]
            /\ UNCHANGED suspicious
       ELSE IF is_ip_allowed(req[i].ip, allowed_networks)
       THEN /\ req' = [req EXCEPT ![i] = NextRun(@, <<"network_isolation">>)]
            /\ UNCHANGED suspicious
       ELSE /\ log_suspicious_request(i, "network_violation")
            /\ req' = [req EXCEPT ![i] = Reply(@, <<"network_isolation">>, 403)]
    /\ UNCHANGED <<services, pipeline, config, now, limiter, chk, admitted>>

\* the paths jwt_auth lets through without a token
Unauthenticated == {"/health", "/", "/monitoring"}

\* jwt_auth; the Authorization header is drawn when the layer reads it
jwt_auth(i) ==
    /\ Running(i, "jwt_auth")
    /\ IF req[i].path \in Unauthenticated
       THEN /\ req' = [req EXCEPT ![i] = NextRun(@, <<"jwt_auth">>)]
            /\ UNCHANGED suspicious
       ELSE \E header \in AuthHeaders :
              LET r == [req[i] EXCEPT !.auth = header, !.authAt = now]
              IN IF header = NoHeader
                 THEN /\ log_suspicious_request(i, "missing_auth")
                      /\ req' = [req EXCEPT ![i] = Reply(r, <<"jwt_auth">>, 401)]
                 ELSE IF header[1] # "Bearer "
                 THEN /\ log_suspicious_request(i, "malformed_auth_header")
                      /\ req' = [req EXCEPT ![i] = Reply(r, <<"jwt_auth">>, 401)]
                 ELSE IF validate_token(header[2], jwt_secret, now) = "Ok"
                 THEN /\ req' = [req EXCEPT ![i] =
                                   NextRun(r, <<"jwt_auth", "validate_token">>)]
                      /\ UNCHANGED suspicious
                 ELSE /\ log_suspicious_request(i, "invalid_jwt")
                      /\ req' = [req EXCEPT ![i] =
                                   Reply(r, <<"jwt_auth", "validate_token">>, 401)]
    /\ UNCHANGED <<services, pipeline, config, now, limiter, chk, admitted>>

\* rate_limiting: state.rate_limiter.check(client_ip) is entered
rate_limiting_enter(i) ==
    /\ Running(i, "rate_limiting")
    /\ check_sample(i, req[i].ip)
    /\ UNCHANGED <<services, pipeline, config, now, limiter, req, suspicious, admitted>>

\* rate_limiting: check holds the lock and returns; 429 when it returns false
rate_limiting_check(i) ==
    /\ Running(i, "rate_limiting")
    /\ check_locked(i)
    /\ IF CheckAccepts(chk[i])
       THEN /\ req' = [req EXCEPT ![i] = NextRun(@, <<"rate_limiting", "check_true">>)]
            /\ UNCHANGED suspicious
       ELSE /\ log_suspicious_request(i, "rate_limit_exceeded")
            /\ req' = [req EXCEPT ![i] =
                         Reply(@, <<"rate_limiting", "check_false">>, 429)]
    /\ UNCHANGED <<services, pipeline, config, now>>

\* request_timing, before next.run: start = Instant::now()
request_timing(i) ==
    /\ Running(i, "request_timing")
    /\ req' = [req EXCEPT ![i] = NextRun(@, <<"request_timing">>)]
    /\ UNCHANGED <<services, pipeline, config, now, limiter, chk, suspicious, admitted>>

\* the response travels back out through the layers that called next.run;
\* request_timing alone acts on it and emits "Request completed"
respond(i) ==
    /\ req[i].pc = "respond"
    /\ req' = [req EXCEPT ![i].pc = "done",
                          ![i].trace = IF "request_timing" \in Range(@)
                                       THEN Append(@, "request_completed")
                                       ELSE @]
    /\ UNCHANGED <<services, pipeline, config, now, limiter, chk, suspicious, admitted>>

----------------------------------------------------------------------------
(* The handlers: routes/health.rs and routes/webhook.rs *)

\* health_check answers 200
health_check(i) ==
    /\ req[i].pc = "handler"
    /\ Route(req[i].path).handler = "health_check"
    /\ req' = [req EXCEPT ![i] = Reply(@, <<"health_check">>, 200)]
    /\ UNCHANGED <<services, pipeline, config, now, limiter, chk, suspicious, admitted>>

\* verify_signature: "Ok", or the error message
verify_signature_any_digest(headers, body, secret) ==
    IF headers.sig # Absent
    THEN IF headers.sig[1] # "sha256=" THEN "Invalid signature format" ELSE "Ok"
    ELSE IF headers.gitlab # Absent
    THEN IF headers.gitlab[1] = secret THEN "Ok" ELSE "Token mismatch"
    ELSE "No signature or token provided"
verify_signature(headers, body, secret) ==
    IF headers.sig # Absent
    THEN IF headers.sig[1] # "sha256=" THEN "Invalid signature format"
         ELSE IF hmac_sha256_hex(secret, body) = headers.sig[2] THEN "Ok"
         ELSE "Signature mismatch"
    ELSE IF headers.gitlab # Absent
    THEN IF headers.gitlab[1] = secret THEN "Ok" ELSE "Token mismatch"
    ELSE "No signature or token provided"

\* the secret of the endpoint whose deployment is this name:
\* endpoints.iter().find(|e| e.deployment.as_ref() == Some(&name))
EndpointSecret(name) ==
    LET wh == Position(config.endpoints, LAMBDA e : e.deployment = name)
    IN IF wh = 0 THEN NoSecret ELSE config.endpoints[wh].secret

\* if let Some(secret) = &wh.secret { if !secret.is_empty() { verify .. } }
RequiresSignature(secret) == secret # NoSecret /\ secret # ""

\* trigger_deploy: the deployment is configured locally; the webhook
\* headers are drawn when the handler reads them
deploy_webhook(i) ==
    /\ req[i].pc = "handler"
    /\ Route(req[i].path).handler = "trigger_deploy"
    /\ LET name == Route(req[i].path).name
           secret == EndpointSecret(name)
       IN \E headers \in WebhookHeaders :
            LET r == [req[i] EXCEPT !.hdr = headers]
            IN IF RequiresSignature(secret)
                  /\ verify_signature(headers, Body, secret) # "Ok"
               THEN /\ req' = [req EXCEPT ![i] = Reply(r, <<"trigger_deploy">>, 401)]
                    /\ UNCHANGED <<jobs, nextId, history, histLock, call, ret,
                                   startLog>>
               ELSE /\ trigger_deploy(name)
                    /\ req' = [req EXCEPT ![i] =
                                 Reply([r EXCEPT !.job = nextId],
                                       <<"trigger_deploy">>, 200)]
    /\ UNCHANGED <<services, deployments, wpc, ex, result, trigIdx, doneLog,
                   fanout, config, now, limiter, chk, suspicious, admitted>>

\* trigger_shutdown: executor.shutdown(&deployment) runs inside the request,
\* one subprocess per step: the shutdown commands in order, or docker
\* compose down for a docker_pull deployment whose compose file exists, or
\* nothing; 500 at the first failure, 200 otherwise
trigger_shutdown(i) ==
    /\ req[i].pc = "handler"
    /\ Route(req[i].path).handler = "trigger_shutdown"
    /\ LET cfg == FindDeployment(deployments, Route(req[i].path).name)
           r == [req[i] EXCEPT !.step = @ + 1]
       IN IF cfg.shutdown # <<>>
          THEN \E ok \in BOOLEAN :
                 IF ~ok
                 THEN req' = [req EXCEPT ![i] = Reply(r, <<"trigger_shutdown">>, 500)]
                 ELSE IF r.step = Len(cfg.shutdown)
                 THEN req' = [req EXCEPT ![i] = Reply(r, <<"trigger_shutdown">>, 200)]
                 ELSE req' = [req EXCEPT ![i] = r]
          ELSE IF cfg.deploy_type = "docker_pull" /\ cfg.path
          THEN \E exists \in BOOLEAN, ok \in BOOLEAN :
                 IF exists /\ ~ok
                 THEN req' = [req EXCEPT ![i] = Reply(r, <<"trigger_shutdown">>, 500)]
                 ELSE req' = [req EXCEPT ![i] = Reply(r, <<"trigger_shutdown">>, 200)]
          ELSE req' = [req EXCEPT ![i] = Reply(r, <<"trigger_shutdown">>, 200)]
    /\ UNCHANGED <<services, pipeline, config, now, limiter, chk, suspicious, admitted>>

----------------------------------------------------------------------------
(* SpecAdmission: requests through the layer stack to the handlers, all   *)
(* within one tick of the clock; the tokens differ in their expiry instead *)

InitAdmission ==
    /\ deployments = <<ChildA, ChildB>>
    /\ config \in {ServerConfig(m, e) : m \in BOOLEAN, e \in EndpointVariants}
    /\ InitState
    /\ InitServices

Arrive == \E i \in Requests : arrive(i)
NetworkIsolation == \E i \in Requests : network_isolation(i)
JwtAuth == \E i \in Requests : jwt_auth(i)
RateLimitingEnter == \E i \in Requests : rate_limiting_enter(i)
RateLimitingCheck == \E i \in Requests : rate_limiting_check(i)
RequestTiming == \E i \in Requests : request_timing(i)
HealthCheck == \E i \in Requests : health_check(i)
TriggerDeploy == \E i \in Requests : deploy_webhook(i)
TriggerShutdown == \E i \in Requests : trigger_shutdown(i)
Respond == \E i \in Requests : respond(i)

NextAdmission ==
    \/ Arrive
    \/ NetworkIsolation
    \/ JwtAuth
    \/ RateLimitingEnter
    \/ RateLimitingCheck
    \/ RequestTiming
    \/ HealthCheck
    \/ TriggerDeploy
    \/ TriggerShutdown
    \/ Respond

SpecAdmission == InitAdmission /\ [][NextAdmission]_vars
----------------------------------------------------------------------------
(* SpecServer: a shutdown request and the deployment worker in one process *)

\* one configuration whose parent runs every phase of execute and fans out
InitServer ==
    /\ deployments =
          <<DeploymentConfig("P", "git_pull", TRUE, TRUE, <<"p1">>, <<"q1">>,
                             <<<<"f", ":", "t">>>>, <<"A", "B">>, FALSE, <<>>),
            ChildA, ChildB>>
    /\ config = ServerConfig(FALSE, <<>>)
    /\ InitState
    /\ InitServices

\* a request for POST /webhook/shutdown/<name> arrives on the first
\* connection
ArriveShutdown ==
    /\ arrive(1)
    /\ req'[1].path \in {"/webhook/shutdown/A", "/webhook/shutdown/B"}
    /\ req'[1].ip = CHOOSE ip \in IPs : TRUE

NextServer ==
    \/ ArriveShutdown
    \/ NetworkIsolation
    \/ JwtAuth
    \/ RateLimitingEnter
    \/ RateLimitingCheck
    \/ RequestTiming
    \/ TriggerShutdown
    \/ Respond
    \/ WebhookDeploy
    \/ WorkerPoll
    \/ WorkerMarkRunning
    \/ ExecPath
    \/ ExecPre
    \/ ExecGitFiles
    \/ ExecMain
    \/ ExecPost
    \/ WorkerFinalStatus
    \/ WorkerUpdatePush
    \/ WorkerUpdateTrim
    \/ WorkerUpdateRetain
    \/ WorkerBranch
    \/ WorkerTrigger

SpecServer == InitServer /\ [][NextServer]_vars
----------------------------------------------------------------------------
(* SpecView: a reading handler beside the worker: GET /webhook/queue and   *)
(* GET /webhook/status/<job_id>                                            *)

\* the jobs a response lists, by id and in order
Listed(q) == [i \in 1..Len(q) |-> q[i].id]

\* get_history(limit): history.iter().rev().take(limit)
get_history(h, limit) ==
    LET rev == Reverse(h) IN SubSeq(rev, 1, IF Len(rev) < limit THEN Len(rev) ELSE limit)

\* a call of a reading handler: what it has read so far
View(pc, op, id, enqueued, js, h, pending, found) ==
    [pc |-> pc, op |-> op, id |-> id, enqueued |-> enqueued, jobs |-> js,
     history |-> h, pending |-> pending, found |-> found]

\* get_queue_status (the handler): queue.get_queue_status(), a clone of the
\* live queue under the jobs read lock
queue_status_jobs ==
    /\ view.pc = "idle"
    /\ view' = View("get_history", "get_queue_status", 0, FALSE, Listed(jobs),
                    <<>>, 0, <<>>)
    /\ UNCHANGED <<pipeline, admission, but_view>>

\* queue.get_history(20), under the history read lock
queue_status_history ==
    /\ view.pc = "get_history"
    /\ histLock = "free"
    /\ view' = [view EXCEPT !.pc = "len",
                            !.history = Listed(get_history(history, 20))]
    /\ UNCHANGED <<pipeline, admission, but_view>>

\* queue.len(), the pending jobs under the jobs read lock, and the response
queue_status_len ==
    /\ view.pc = "len"
    /\ view' = [view EXCEPT !.pc = "done",
                            !.pending = Len(SelectSeq(jobs, LAMBDA j :
                                                j.status = "pending"))]
    /\ UNCHANGED <<pipeline, admission, but_view>>

\* get_job(job_id): the live queue first, under the jobs read lock
get_job_jobs ==
    /\ view.pc = "idle"
    /\ \E job_id \in 1..MaxJobs :
          LET pos == Position(jobs, LAMBDA j : j.id = job_id)
          IN view' = IF pos # 0
                     THEN View("done", "get_job", job_id, job_id < nextId,
                               <<>>, <<>>, 0, <<jobs[pos]>>)
                     ELSE View("job_history", "get_job", job_id, job_id < nextId,
                               <<>>, <<>>, 0, <<>>)
    /\ UNCHANGED <<pipeline, admission, but_view>>

\* get_job: then the history, under the history read lock; None when the
\* job is in neither
get_job_history ==
    /\ view.pc = "job_history"
    /\ histLock = "free"
    /\ LET pos == Position(history, LAMBDA j : j.id = view.id)
       IN view' = [view EXCEPT !.pc = "done",
                               !.found = IF pos # 0 THEN <<history[pos]>> ELSE <<>>]
    /\ UNCHANGED <<pipeline, admission, but_view>>

NextView ==
    \/ queue_status_jobs
    \/ queue_status_history
    \/ queue_status_len
    \/ get_job_jobs
    \/ get_job_history
    \/ WebhookDeploy
    \/ WorkerPoll
    \/ WorkerMarkRunning
    \/ ExecPath
    \/ ExecPre
    \/ ExecGitFiles
    \/ ExecMain
    \/ ExecPost
    \/ WorkerFinalStatus
    \/ WorkerUpdatePush
    \/ WorkerUpdateTrim
    \/ WorkerUpdateRetain
    \/ WorkerBranch
    \/ WorkerTrigger

SpecView == InitServer /\ [][NextView]_vars



----------------------------------------------------------------------------
(* SpecLimiter: the RateLimiter under concurrent callers of check *)

LimiterSample ==
    \E k \in Requests, ip \in IPs :
        /\ check_sample(k, ip)
        /\ UNCHANGED <<services, pipeline, config, now, limiter, req, suspicious, admitted>>

LimiterCheck ==
    \E k \in Requests :
        /\ check_locked(k)
        /\ UNCHANGED <<services, pipeline, config, now, req, suspicious>>

NextLimiter ==
    \/ LimiterSample
    \/ LimiterCheck
    \/ Tick

SpecLimiter == InitQueue /\ [][NextLimiter]_vars
\* SpecLimiterLive: SpecLimiter with the progress the runtime gives: time
\* passes and a check that holds a sampled instant gets the lock; clients
\* may stop calling. RateLimiter::cleanup is defined and never called:
\* server::run spawns the aggregation, retention, update and sync tasks
\* and no task for the limiter, so the program has no step that runs it.
SpecLimiterLive ==
    /\ InitQueue /\ [][NextLimiter]_vars
    /\ WF_vars(Tick)
    /\ WF_vars(LimiterCheck)


----------------------------------------------------------------------------
(* Properties *)

JobIds(q) == {q[i].id : i \in 1..Len(q)}
PendingIds(q) == {q[i].id : i \in {k \in 1..Len(q) : q[k].status = "pending"}}
RunningIds(q) == {q[i].id : i \in {k \in 1..Len(q) : q[k].status = "running"}}
Min(S) == CHOOSE x \in S : \A y \in S : x <= y
IdsOf(q) == [i \in 1..Len(q) |-> q[i].id]
IndexIn(s, e) == Position(s, LAMBDA x : x = e)

\* C1: next_job returns the pending job that was enqueued earliest (ids
\* are handed out in enqueue order), it returns None exactly when the live
\* queue holds no pending job, and every job it starts was enqueued after
\* all the jobs it started before.
C1_NextJobFifo ==
    [][\A t \in Tasks : next_job(t) =>
          /\ (ret'[t] = NoJob) <=> (PendingIds(jobs) = {})
          /\ ret'[t] # NoJob =>
                /\ ret'[t].id = Min(PendingIds(jobs))
                /\ ret'[t].status = "running"
                /\ \A k \in 1..Len(startLog) : startLog[k] < ret'[t].id]_vars

\* C1 witness: next_job has started two jobs and passed over a cancelled
\* job that was enqueued before the one it returned last.
C1_Witness ==
    /\ Len(startLog) >= 2
    /\ ret[Poller] # NoJob
    /\ \E i \in 1..Len(jobs) :
          jobs[i].status = "cancelled" /\ jobs[i].id < ret[Poller].id

\* C2: the live queue never holds a job whose status is terminal.
C2_NoTerminalInLiveQueue ==
    \A i \in 1..Len(jobs) : ~IsTerminal(jobs[i].status)

\* C3: whenever the history lock is free, history holds at most
\* max_history jobs.
C3_HistoryBounded ==
    histLock = "free" => Len(history) <= max_history

\* C3 witness: history is full, its lock is free and a job that went
\* through update_status has already been evicted from it.
C3_Witness ==
    /\ histLock = "free"
    /\ Len(history) = max_history
    /\ \E k \in 1..(nextId - 1) : k \notin JobIds(jobs) /\ k \notin JobIds(history)

\* C4: once the worker's update_status calls have returned, history is the
\* last min(n, max_history) jobs that were driven to a terminal status, in
\* completion order, every one with a terminal status, and none of the n
\* jobs is in the live queue.
C4_HistoryIsLastCompleted ==
    call[Worker].pc = "idle" =>
        /\ IdsOf(history) = LastN(doneLog, max_history)
        /\ \A i \in 1..Len(history) : IsTerminal(history[i].status)
        /\ \A k \in Range(doneLog) : k \notin JobIds(jobs)

\* C4 witness: more jobs than max_history have completed, so the oldest
\* has been evicted.
C4_Witness ==
    /\ call[Worker].pc = "idle"
    /\ Len(doneLog) > max_history
    /\ Len(history) = max_history

\* C5: with the worker as the only caller of next_job and update_status,
\* at most one job is running.
C5_AtMostOneRunning ==
    Cardinality(RunningIds(jobs)) <= 1

\* C5 witness: a job is running after an earlier one was started, while a
\* handler has cancelled a job and another job is pending.
C5_Witness ==
    /\ Cardinality(RunningIds(jobs)) = 1
    /\ Len(startLog) >= 2
    /\ \E i \in 1..Len(jobs) : jobs[i].status = "cancelled"

\* the blocks the executor's output holds
PostBlocks(out) == {k \in 1..Len(out) : out[k][1] = "post-deploy"}
PostSteps(tr) == {k \in 1..Len(tr) : tr[k].step = "post"}

\* C6: for a result with success = true and skipped = true no post-deploy
\* command was executed and the worker enqueues no trigger child for the
\* job.
C6_SkippedRunsNothing ==
    (result # NoResult /\ result.success /\ result.skipped) =>
        /\ PostBlocks(result.output) = {}
        /\ PostSteps(ex.trace) = {}
        /\ wpc # "triggers"
        /\ fanout = <<>>

\* C6 witness: a skipped job whose deployment has post-deploy commands and
\* triggers has been processed to the end of the worker's iteration.
C6_Witness ==
    /\ result # NoResult /\ result.success /\ result.skipped
    /\ wpc = "poll"
    /\ JobConfig.post_deploy # <<>>
    /\ JobConfig.trigger # <<>>

\* the parent of the claim: trigger list [A, B], succeeded, not skipped
ParentAB ==
    /\ result # NoResult /\ result.success /\ ~result.skipped
    /\ JobConfig.trigger = <<"A", "B">>

\* C7 as stated: at the parent's transition to completed in the queue the
\* queue contains a job for A and a job for B, A before B.
C7_ChildrenAtCompletion ==
    (ParentAB /\ wpc = "finalizing" /\ call[Worker].pc = "history") =>
        \E i, j \in 1..Len(jobs) :
            /\ i < j
            /\ jobs[i].deployment_name = "A"
            /\ jobs[j].deployment_name = "B"

\* C7 amended: when the worker has finished the parent's trigger fan-out
\* (after the parent's transition to completed), the queue contains the
\* child job for A and the child job for B, A before B.
C7_ChildrenAfterFanout ==
    (ParentAB /\ wpc = "poll") =>
        /\ Len(fanout) = 2
        /\ \E i, j \in 1..Len(jobs) :
              /\ i < j
              /\ jobs[i].id = fanout[1] /\ jobs[i].deployment_name = "A"
              /\ jobs[j].id = fanout[2] /\ jobs[j].deployment_name = "B"
              /\ jobs[i].trigger_source = TriggerSource(ret[Worker].deployment_name)
              /\ jobs[j].trigger_source = TriggerSource(ret[Worker].deployment_name)

\* C7 witness: the fan-out of such a parent has finished, and the parent is
\* already in history.
C7_Witness ==
    /\ ParentAB /\ wpc = "poll"
    /\ ret[Worker].id \in JobIds(history)

\* C8: when a trigger child is started, every job that was enqueued before
\* it has been started before it.
C8_ChildRunsAfterEarlierJobs ==
    (ret[Worker] # NoJob /\ ret[Worker].trigger_source.kind = "trigger") =>
        LET at == IndexIn(startLog, ret[Worker].id)
        IN /\ at # 0
           /\ \A k \in 1..(ret[Worker].id - 1) :
                 \E m \in 1..(at - 1) : startLog[m] = k

\* C8 witness: the child with id 3 has been started, and job 2, which a
\* webhook enqueued between the parent's enqueue and the child's, was
\* started before it.
C8_Witness ==
    /\ ret[Worker] # NoJob
    /\ ret[Worker].trigger_source.kind = "trigger"
    /\ ret[Worker].id = 3
    /\ \E i \in 1..Len(history) :
          history[i].id = 2 /\ history[i].trigger_source = ManualSource

\* the children process_triggers has to enqueue for a configuration
Resolves(name) == \E i \in 1..Len(deployments) : deployments[i].name = name
ExpectedChildren(cfg) ==
    LET firstMissing == Position(cfg.trigger, LAMBDA n : ~Resolves(n))
    IN IF cfg.continue_on_failure \/ firstMissing = 0
       THEN SelectSeq(cfg.trigger, Resolves)
       ELSE SubSeq(cfg.trigger, 1, firstMissing - 1)
JobById(q, id) == q[Position(q, LAMBDA j : j.id = id)]
FanoutNames == [k \in 1..Len(fanout) |-> JobById(jobs, fanout[k]).deployment_name]

\* C9: with continue_on_failure = false the fan-out enqueues the triggers
\* before the first name that does not resolve and none after it; with
\* continue_on_failure = true it enqueues every resolvable trigger; the
\* children are enqueued in list order.
C9_FanoutStopsAtMissing ==
    (result # NoResult /\ FiresTriggers(result, JobConfig)
        /\ wpc \in {"triggers", "poll"}) =>
        /\ IsPrefix(FanoutNames, ExpectedChildren(JobConfig))
        /\ wpc = "poll" => FanoutNames = ExpectedChildren(JobConfig)
        /\ \A k \in 1..Len(fanout) : \A m \in 1..Len(fanout) :
              k < m => IndexIn(IdsOf(jobs), fanout[k]) < IndexIn(IdsOf(jobs), fanout[m])

\* C9 witness: a fan-out over [A, X, B] with continue_on_failure = false
\* has ended after enqueueing A only.
C9_Witness ==
    /\ result # NoResult /\ FiresTriggers(result, JobConfig)
    /\ wpc = "poll"
    /\ JobConfig.trigger = <<"A", Missing, "B">>
    /\ ~JobConfig.continue_on_failure
    /\ FanoutNames = <<"A">>

\* the executor's steps in their strict order
Plan(cfg) ==
    (IF cfg.path THEN <<<<"path", 0>>>> ELSE <<>>)
    \o [k \in 1..Len(cfg.pre_deploy) |-> <<"pre", k>>]
    \o (IF cfg.git_files # <<>> THEN <<<<"git_files", 0>>>> ELSE <<>>)
    \o <<<<"main", 0>>>>
    \o [k \in 1..Len(cfg.post_deploy) |-> <<"post", k>>]

\* the output block of a step that succeeded
BlockOf(cfg, st) ==
    CASE st.step = "pre"       -> <<"pre-deploy", cfg.pre_deploy[st.i]>>
      [] st.step = "git_files" -> <<"git_files", "fetch">>
      [] st.step = "main"      -> <<"main", cfg.deploy_type>>
      [] st.step = "post"      -> <<"post-deploy", cfg.post_deploy[st.i]>>

ExpectedOutput(cfg, tr) ==
    LET ok == SelectSeq(tr, LAMBDA st : st.ok /\ st.step # "path")
    IN [k \in 1..Len(ok) |-> BlockOf(cfg, ok[k])]

\* C10: the steps run in the strict order of the plan; a failing step is
\* the last one, and the run then ends with success = false, skipped =
\* false and the output of the steps that succeeded before it.
C10_StrictOrderShortCircuit ==
    wpc \in {"execute", "final"} =>
        LET tr == ex.trace
            cfg == JobConfig
        IN /\ IsPrefix([k \in 1..Len(tr) |-> <<tr[k].step, tr[k].i>>], Plan(cfg))
           /\ \A k \in 1..(Len(tr) - 1) : tr[k].ok
           /\ ex.output = ExpectedOutput(cfg, tr)
           /\ (Len(tr) > 0 /\ ~tr[Len(tr)].ok) =>
                 /\ wpc = "final"
                 /\ result # NoResult
                 /\ ~result.success /\ ~result.skipped
                 /\ result.output = ExpectedOutput(cfg, tr)
           /\ (wpc = "final") =>
                 /\ result # NoResult
                 /\ result.success <=> \A k \in 1..Len(tr) : tr[k].ok
                 /\ result.output = ExpectedOutput(cfg, tr)

\* C10 witness: the run failed in a post-deploy command after a
\* pre-deploy command, the file fetch and the main step had succeeded.
C10_Witness ==
    /\ wpc = "final"
    /\ ~result.success
    /\ result.error = "post_deploy"
    /\ Len(result.output) = 3

----------------------------------------------------------------------------
(* Properties of the admission pipeline *)

LayerNames == {"network_isolation", "jwt_auth", "rate_limiting"}
HandlerNames == {"health_check", "trigger_deploy", "trigger_shutdown"}
Arrived == {i \in Requests : req[i].pc # "none"}
Events(i) == Range(req[i].trace)

\* the layers and the handler a request has entered, in order
Entered(i) == SelectSeq(req[i].trace, LAMBDA e : e \in LayerNames \cup HandlerNames)

\* the number of timestamps in the rate limiter's table
RECURSIVE Timestamps(_)
Timestamps(ips) ==
    IF ips = {} THEN 0
    ELSE LET ip == CHOOSE x \in ips : TRUE
         IN Len(limiter[ip]) + Timestamps(ips \ {ip})

\* C11: a request enters the layers in the order network isolation, bearer
\* auth, rate limit, handler; one that a layer rejected entered nothing
\* after that layer; with isolation_mode on a peer outside the allow-list
\* gets 403 and its token is never parsed; a request rejected by isolation
\* or by auth adds no timestamp to the rate limiter (the table holds one
\* timestamp per request whose check succeeded).
C11_LayerOrder ==
    /\ \A i \in Arrived :
          LET last == IF Entered(i) = <<>> THEN "none"
                      ELSE Entered(i)[Len(Entered(i))]
          IN /\ IsPrefix(Entered(i), <<"network_isolation", "jwt_auth",
                                       "rate_limiting", Route(req[i].path).handler>>)
             /\ (req[i].status # 0 /\ last \in LayerNames) =>
                    /\ req[i].pc \in {"respond", "done"}
                    /\ Events(i) \cap HandlerNames = {}
             /\ (config.isolation_mode /\ req[i].ip = OutsideIp
                    /\ "network_isolation" \in Events(i)) =>
                    /\ req[i].status = 403
                    /\ Events(i) = {"network_isolation"}
             /\ (req[i].status \in {401, 403} /\ last \in {"network_isolation", "jwt_auth"}) =>
                    Events(i) \cap {"rate_limiting", "check_true", "check_false"} = {}
    /\ Timestamps(DOMAIN limiter) =
          Cardinality({i \in Arrived : "check_true" \in Events(i)})

\* an outside peer was turned away with 403, another request was turned
\* away by bearer auth, and the rate limiter's table is still empty
C11_Witness ==
    /\ config.isolation_mode
    /\ \E i, k \in Requests :
          /\ req[i].pc = "done" /\ req[i].ip = OutsideIp /\ req[i].status = 403
          /\ req[k].pc = "done" /\ req[k].status = 401
          /\ req[k].trace = <<"network_isolation", "jwt_auth", "validate_token">>
    /\ limiter = <<>>

\* C12: request_timing wraps the whole stack: every request that has been
\* answered, whichever layer or handler answered it, has emitted one
\* "Request completed" event.
C12_TimingForEveryRequest ==
    \A i \in Requests :
        req[i].pc = "done" => "request_completed" \in Events(i)

\* the paths that need a bearer token
Protected(path) == path \notin {"/", "/health", "/monitoring"}

\* the Authorization header is "Bearer <t>" and t is signed with the
\* configured secret, names the issuer infractl and had not expired (its
\* exp was not before the clock) when jwt_auth validated it
ValidBearer(r) ==
    /\ r.auth # NoHeader
    /\ r.auth[1] = "Bearer "
    /\ r.auth[2].key = jwt_secret
    /\ r.auth[2].iss = "infractl"
    /\ r.auth[2].exp >= r.authAt

AuthReasons == {"missing_auth", "malformed_auth_header", "invalid_jwt"}

\* C13: a request to a protected path reaches its handler only with a valid
\* bearer token (expiry as jwt_auth decides it: exp not before the clock);
\* without one jwt_auth answers 401, logs missing_auth,
\* malformed_auth_header or invalid_jwt, and the handler does not run.
C13_BearerGate ==
    \A i \in Arrived :
        Protected(req[i].path) =>
            /\ (Events(i) \cap HandlerNames # {}) => ValidBearer(req[i])
            /\ ("jwt_auth" \in Events(i) /\ ~ValidBearer(req[i])) =>
                   /\ req[i].status = 401
                   /\ Events(i) \cap HandlerNames = {}
                   /\ \E n \in 1..Len(suspicious) :
                         /\ suspicious[n].req = i
                         /\ suspicious[n].reason \in AuthReasons
                         /\ suspicious[n].reason = "missing_auth" <=> req[i].auth = NoHeader
                         /\ suspicious[n].reason = "invalid_jwt" <=>
                               "validate_token" \in Events(i)

\* one protected request ran its handler and one with a token of another
\* issuer was answered 401
C13_Witness ==
    \E i, k \in Arrived :
        /\ Protected(req[i].path) /\ req[i].pc = "done" /\ req[i].status = 200
        /\ "trigger_shutdown" \in Events(i)
        /\ Protected(req[k].path) /\ req[k].pc = "done" /\ req[k].status = 401
        /\ req[k].auth # NoHeader /\ req[k].auth[1] = "Bearer "
        /\ req[k].auth[2].key = jwt_secret /\ req[k].auth[2].iss = "other"

\* C14: validate_token rejects every token whose exp is at or before the
\* current time: a request whose token jwt_auth validated at a time t with
\* exp <= t is answered 401.
C14_ExpiredAtBoundary ==
    \A i \in Arrived :
        ("validate_token" \in Events(i) /\ req[i].auth[2].exp <= req[i].authAt) =>
            req[i].status = 401

\* the checks of this IP that were accepted at an instant in [from, from + window)
AcceptedWithin(ip, from) ==
    {n \in 1..Len(admitted) :
        /\ admitted[n].ip = ip
        /\ from <= admitted[n].at
        /\ admitted[n].at < from + window}

\* C15: under any interleaving of concurrent checks no IP gets more than
\* max_requests checks accepted inside one window, an accepted check
\* counting at the instant check accepted it.
C15_AtMostMaxPerWindow ==
    \A ip \in IPs, from \in 0..MaxTime :
        Cardinality(AcceptedWithin(ip, from)) <= max_requests

\* the status and the layer that go with a suspicious reason
RejectionOf(reason) ==
    CASE reason = "network_violation" -> [status |-> 403, layer |-> "network_isolation"]
      [] reason \in AuthReasons -> [status |-> 401, layer |-> "jwt_auth"]
      [] reason = "rate_limit_exceeded" -> [status |-> 429, layer |-> "rate_limiting"]

\* C16: every suspicious-request record belongs to a request that was
\* rejected with the status of its reason (403 network_violation, 401
\* missing_auth / malformed_auth_header / invalid_jwt, 429
\* rate_limit_exceeded) by the layer that logs that reason, and for that
\* request no later layer and no handler ran.
C16_SuspiciousMeansRejected ==
    \A n \in 1..Len(suspicious) :
        LET rec == suspicious[n]
            i == rec.req
        IN /\ rec.reason \in {"network_violation", "rate_limit_exceeded"} \cup AuthReasons
           /\ req[i].pc \in {"respond", "done"}
           /\ req[i].status = RejectionOf(rec.reason).status
           /\ Entered(i) # <<>>
           /\ Entered(i)[Len(Entered(i))] = RejectionOf(rec.reason).layer
           /\ Events(i) \cap (HandlerNames \cup {"request_timing", "request_completed"}) = {}
           /\ \A m \in 1..Len(suspicious) : suspicious[m].req = i => m = n

\* a request over the limit was answered 429 and logged, after another
\* request of the same peer had been let through
C16_Witness ==
    \E n \in 1..Len(suspicious) :
        /\ suspicious[n].reason = "rate_limit_exceeded"
        /\ req[suspicious[n].req].pc = "done"
        /\ req[suspicious[n].req].status = 429
        /\ \E k \in Arrived : req[k].pc = "done" /\ "check_true" \in Events(k)

\* the headers carry what verify_signature takes as proof of the secret: a
\* x-hub-signature-256 of "sha256=" and the hex HMAC-SHA256 of the raw body
\* or, with that header absent, a x-gitlab-token equal to the secret
SignatureOk(headers, secret) ==
    IF headers.sig # Absent
    THEN headers.sig = <<"sha256=", hmac_sha256_hex(secret, Body)>>
    ELSE headers.gitlab = <<secret>>

\* C17: when the endpoint of the deployment has a non-empty secret, the
\* deploy handler enqueues a job only for a request whose signature or token
\* proves the secret; for any other request it answers 401, leaves the
\* queue and the history unchanged and logs no suspicious record (so none
\* with reason invalid_jwt exists for the request).
C17_SignatureGate ==
    [][\A i \in Requests :
          (/\ deploy_webhook(i)
           /\ RequiresSignature(EndpointSecret(Route(req[i].path).name)))
          => LET secret == EndpointSecret(Route(req[i].path).name)
             IN IF SignatureOk(req'[i].hdr, secret)
                THEN /\ req'[i].status = 200
                     /\ jobs' = Append(jobs, jobs'[Len(jobs')])
                     /\ jobs'[Len(jobs')].deployment_name = Route(req[i].path).name
                     /\ jobs'[Len(jobs')].status = "pending"
                ELSE /\ req'[i].status = 401
                     /\ UNCHANGED <<jobs, history, nextId, suspicious>>
                     /\ \A n \in 1..Len(suspicious) : suspicious[n].req # i]_vars

\* a deploy request with a signature over another body was answered 401
\* while a job enqueued by a well-signed request is in the queue
C17_Witness ==
    /\ EndpointSecret("A") = "s"
    /\ \E i, k \in Arrived :
          /\ req[i].pc = "done" /\ req[i].status = 401
          /\ "trigger_deploy" \in Events(i)
          /\ req[i].hdr.sig = <<"sha256=", hmac_sha256_hex("s", "c")>>
          /\ req[k].pc = "done" /\ req[k].job # 0
          /\ req[k].hdr.sig = <<"sha256=", hmac_sha256_hex("s", Body)>>
    /\ Len(jobs) = 1

----------------------------------------------------------------------------
(* Properties of cancel and of terminal jobs *)

\* the positions of the live queue that hold this id with status pending
PendingAt(q, id) == {k \in 1..Len(q) : q[k].id = id /\ q[k].status = "pending"}

\* C18: cancel(id) returns true exactly when the live queue holds the job
\* with status pending, and then that job, and nothing else, becomes
\* cancelled with completed_at; for a running job, a terminal job or an
\* unknown id it returns false and leaves queue and history as they were.
C18_CancelOnlyPending ==
    [][\A id \in 1..MaxJobs, ok \in BOOLEAN :
          cancel(id, ok) =>
              /\ ok <=> PendingAt(jobs, id) # {}
              /\ ok => \E k \in PendingAt(jobs, id) :
                          jobs' = [jobs EXCEPT ![k].status = "cancelled",
                                               ![k].completed_at = TRUE]
              /\ ~ok => UNCHANGED <<jobs, history>>
              /\ UNCHANGED history]_vars

\* a pending job has been cancelled and is in the live queue next to a
\* running job and a job whose terminal status update_status wrote
C18_Witness ==
    /\ \E k \in 1..Len(jobs) :
          /\ jobs[k].status = "cancelled" /\ jobs[k].completed_at
          /\ ~jobs[k].started_at
    /\ \E k \in 1..Len(jobs) : jobs[k].status = "running"
    /\ \E k \in 1..Len(jobs) : jobs[k].status = "completed"

\* the statuses the live queue and the history record for this id
StatusesOf(id, q, h) ==
    {q[k].status : k \in {n \in 1..Len(q) : q[n].id = id}}
        \cup {h[k].status : k \in {n \in 1..Len(h) : h[n].id = id}}

TerminalStatuses == {"completed", "failed", "cancelled"}

\* C19: once a job is completed, failed or cancelled (it is recorded so in
\* the live queue or the history, or the worker has made it terminal
\* before), no step gives it another status, no step brings it back as
\* pending or running, and next_job does not return it.
C19_TerminalIsFinal ==
    [][\A id \in 1..MaxJobs :
          LET was == StatusesOf(id, jobs, history) \cap TerminalStatuses
          IN (was # {} \/ id \in Range(doneLog)) =>
                /\ StatusesOf(id, jobs', history') \subseteq TerminalStatuses
                /\ was # {} => StatusesOf(id, jobs', history') \subseteq was
                /\ startLog' # startLog => startLog'[Len(startLog')] # id
                /\ \A t \in Tasks : ret'[t] # ret[t] => ret'[t].id # id]_vars

\* the worker has made a job terminal, a cancelled job is still in the
\* live queue, and next_job has since started a job enqueued after it
C19_Witness ==
    /\ doneLog # <<>>
    /\ Len(startLog) >= 2
    /\ \E k \in 1..Len(jobs) :
          /\ jobs[k].status = "cancelled"
          /\ jobs[k].id < startLog[Len(startLog)]

----------------------------------------------------------------------------
(* Properties of the shutdown handler *)

\* the requests for POST /webhook/shutdown/<name>
ShutdownRequests == {i \in Arrived : req[i].path \in {"/webhook/shutdown/A",
                                                       "/webhook/shutdown/B"}}

\* C20: no step of a shutdown request, from its arrival to its response and
\* whatever the outcome of the executor's shutdown, changes the deploy
\* queue or the history or creates a job; the response is given only after
\* executor.shutdown has run inside the request.
C20_ShutdownLeavesQueue ==
    [][\A i \in ShutdownRequests :
          /\ req'[i] # req[i] => UNCHANGED <<jobs, history, nextId>>
          /\ req[i].job = 0
          /\ req[i].status \in {200, 500} =>
                 /\ "trigger_shutdown" \in Events(i)
                 /\ req[i].step >= 1]_vars

\* a shutdown whose second command failed was answered 500, and the queue
\* holds the one job that the other request, a deploy webhook, enqueued
C20_Witness ==
    /\ \E i \in ShutdownRequests :
          req[i].pc = "done" /\ req[i].status = 500 /\ req[i].step = 2
    /\ \E k \in Arrived : req[k].job = 1
    /\ Len(jobs) = 1 /\ history = <<>>

----------------------------------------------------------------------------
(* Properties of the subprocess timeouts *)

\* C21: every job that is running eventually has a terminal status in the
\* live queue or the history, whatever the external programs do.
C21_RunningReachesTerminal ==
    \A id \in 1..MaxJobs :
        ("running" \in StatusesOf(id, jobs, history))
            ~> (StatusesOf(id, jobs, history) \cap TerminalStatuses # {})

----------------------------------------------------------------------------
(* Properties of graceful shutdown *)

\* C22: the process has not ended while a deploy job is running: when the
\* process has exited, no job of the queue has status running.
C22_ExitAfterRunningJob ==
    proc = "exited" => \A k \in 1..Len(jobs) : jobs[k].status # "running"

----------------------------------------------------------------------------
(* Properties of the metrics store *)

\* C23: every row of metrics_hourly has at least one row of metrics_raw of
\* its agent whose collected_at lies in the hour the row starts.
C23_HourlyHasRawSample ==
    \A h \in store.hourly :
        \E r \in store.raw :
            /\ r.agent_name = h.agent_name
            /\ hour_start(r.collected_at) = h.hour_start

----------------------------------------------------------------------------
(* Properties of config sync *)

\* C24: a step of sync changes the config file or the backups only when
\* the remote content it fetched passes validate_config and its SHA-256
\* differs from that of the local content it read; and a sync that ended
\* with the validation error left the file and the backups as they were
\* when it began.
C24_WriteOnlyValidChange ==
    [][/\ (sync'.file # sync.file \/ sync'.backups # sync.backups) =>
              /\ sync.remote.yaml /\ sync.remote.len >= 50 /\ sync.remote.mode
              /\ sync.remote.text # sync.old.text
       /\ sync'.result = "Err invalid" =>
              sync'.file = sync'.old /\ sync'.backups = sync'.oldBackups]_vars

\* a first sync wrote a new config and made a backup; the second one
\* fetched a 49-byte text and ended with the validation error
C24_Witness ==
    /\ sync.calls = 2 /\ sync.pc = "idle" /\ sync.result = "Err invalid"
    /\ sync.remote.len = 49
    /\ sync.backups = <<LocalContent>>
    /\ sync.file # LocalContent /\ validate_config(sync.file) = "Ok"

\* C25: at every instant the config file holds the complete content it had
\* when the sync began or the complete content the sync fetched.
C25_ConfigOldOrNew ==
    sync.file = sync.old \/ sync.file = sync.remote

----------------------------------------------------------------------------
(* Properties of the updater *)

\* C26: when self_update found a checksum entry for the asset and the entry
\* is not the SHA-256 of the binary it is about to install, the call has
\* returned an error and the disk is as the call found it: the executable,
\* the backups and the temporary file.
C26_MismatchReplacesNothing ==
    (upd.called /\ upd.expected # <<>> /\ upd.expected[1].of # upd.binary) =>
        /\ upd.pc = "idle" /\ upd.result = "Err"
        /\ upd.exe = upd.exe0
        /\ upd.backups = upd.backups0
        /\ upd.temp = upd.temp0

\* a second attempt, after one that left a backup behind, fails on the
\* checksum
C26_Witness ==
    /\ upd.called /\ upd.checks = 2
    /\ upd.expected # <<>> /\ upd.expected[1].of # upd.binary
    /\ upd.failed = <<"Checksum mismatch">>
    /\ upd.backups # <<>>

\* C27: after a failed update check or self-update attempt the updater
\* state's last_error holds the error of that attempt.
C27_LastErrorRecordsFailure ==
    (upd.pc = "idle" /\ upd.failed # <<>>) => upd.state.last_error = upd.failed

\* C28: is_newer_version answers by semver precedence for texts with at most
\* one leading v; a self_update call whose release is not strictly newer
\* than the running version leaves the disk as it found it, and for an equal
\* or older release it returns "Already up to date" without
\* requires_restart.
C28_ReplaceOnlyNewer ==
    /\ \A c, r \in Tags :
          (c.vs <= 1 /\ r.vs <= 1 /\ c.wellformed /\ r.wellformed) =>
              /\ is_newer_version(c, r).ok
              /\ is_newer_version(c, r).newer <=> Precedes(c.version, r.version)
    /\ (upd.called /\ upd.release # NoRelease) =>
          LET remote == upd.release.tag_name
              semver == remote.vs <= 1 /\ remote.wellformed
              newer == semver /\ Precedes(current_version.version, remote.version)
          IN /\ ~newer => /\ upd.exe = upd.exe0
                          /\ upd.backups = upd.backups0
                          /\ upd.temp = upd.temp0
             /\ (semver /\ ~newer) =>
                   /\ upd.pc = "idle"
                   /\ upd.result = "Already up to date"
                   /\ ~upd.requires_restart

\* check_for_updates saw a newer release, self_update then fetched v0.2.0, the
\* running version
C28_Witness ==
    /\ upd.called /\ upd.pc = "idle"
    /\ upd.release.tag_name = Tag(1, TRUE, Version(0, 2, 0, 0))
    /\ upd.result = "Already up to date"
    /\ upd.state.update_available
    /\ upd.exe = "running binary" /\ upd.backups = <<>>

----------------------------------------------------------------------------
(* Properties of the file fetch and of inline commands *)

\* where a path really leads: .. and links resolved, whether or not the
\* last components exist
RECURSIVE Destination(_, _, _)
Destination(fs, at, rest) ==
    IF rest = <<>> THEN at
    ELSE IF Head(rest) = ".." THEN Destination(fs, Parent(at), Tail(rest))
    ELSE Destination(fs, Node(fs, Append(at, Head(rest))), Tail(rest))

\* C29: fetch_files hands fs::copy only destinations that
\* validate_path_containment accepted; no mapping whose destination really
\* lies outside the deployment root is passed, so a call with one does not
\* return Ok; and every file the call created or overwrote lies in the root.
C29_WritesStayInRoot ==
    /\ fetch.copied \subseteq
           fetch.passed \cup {Append(d, "app.conf") : d \in fetch.passed}
    /\ \A k \in 1..Len(fetch.file_mappings) :
          (k < fetch.i \/ fetch.result = "Ok") =>
              starts_with(Destination(fetch.disk, <<>>,
                                      dest_path \o fetch.file_mappings[k].to),
                          dest_path)
    /\ \A real \in fetch.wrote : starts_with(real, dest_path)

\* C30: a run_command call whose command contains $( , a backtick, &&, ||,
\* ; , | , >> , >& , <( or >( returns an error and spawns nothing; any other
\* command is spawned by the call, under sh -c.
C30_ForbiddenNeverSpawned ==
    LET forbidden == { <<"$", "(">>, <<"backtick">>, <<"&", "&">>, <<"|", "|">>,
                       <<";">>, <<"|">>, <<">", ">">>, <<">", "&">>,
                       <<"<", "(">>, <<">", "(">> }
        rejected == \E pattern \in forbidden : contains(script.command, pattern)
    IN script.called =>
          IF rejected
          THEN /\ script.pc = "idle"
               /\ script.result = "Err forbidden pattern"
               /\ script.spawned = <<>>
          ELSE /\ script.spawned # <<>>
               /\ LET argv == script.spawned[Len(script.spawned)]
                  IN /\ argv[Len(argv)] = script.command
                     /\ argv[Len(argv) - 1] = "-c"
                     /\ argv[Len(argv) - 2] = "sh"
               /\ script.result # "Err forbidden pattern"

\* "a>a" has run to success
C30_Witness ==
    /\ script.called /\ script.pc = "idle"
    /\ script.command = <<"a", ">", "a">>
    /\ script.result = "Ok"
    /\ script.spawned = << <<"sh", "-c", <<"a", ">", "a">> >> >>

----------------------------------------------------------------------------
(* Configuration load *)

\* C31: after a load that returned Ok, no two entries of the final
\* deployment list have the same name.
C31_NamesUnique ==
    loader.result = "Ok" =>
        \A i, j \in 1..Len(loader.deployments) :
            loader.deployments[i].name = loader.deployments[j].name => i = j

----------------------------------------------------------------------------
(* File mappings *)

\* C32: parse_file_mappings returns, for a list whose mappings all hold a
\* colon, one pair per mapping, in order, whose first part holds no colon
\* and whose parts joined by a colon are the mapping (the split is at the
\* first colon, later ones stay in the destination); for a list with a
\* mapping without a colon it returns the Invalid format error naming the
\* first such mapping; the empty list gives the empty list.
C32_SplitAtFirstColon ==
    mapped.result # <<>> =>
        LET files == mapped.files
            r == mapped.result[1]
            colonless == {i \in 1..Len(files) :
                             \A k \in 1..Len(files[i]) : files[i][k] # ":"}
        IN /\ colonless = {} =>
                /\ r.ok
                /\ Len(r.mappings) = Len(files)
                /\ \A i \in 1..Len(files) :
                      /\ Len(r.mappings[i]) = 2
                      /\ r.mappings[i][1] \o <<":">> \o r.mappings[i][2] = files[i]
                      /\ \A k \in 1..Len(r.mappings[i][1]) :
                            r.mappings[i][1][k] # ":"
           /\ colonless # {} =>
                /\ ~r.ok
                /\ r.mappings = <<>>
                /\ \E i \in colonless :
                      /\ r.invalid = files[i]
                      /\ \A j \in colonless : i <= j
           /\ files = <<>> => r.ok /\ r.mappings = <<>>

\* a mapping with a second colon was parsed, the colon kept in the
\* destination
C32_Witness ==
    /\ mapped.result # <<>>
    /\ mapped.result[1].ok
    /\ \E i \in 1..Len(mapped.files) :
          /\ mapped.files[i] = <<"a", ":", ":">>
          /\ mapped.result[1].mappings[i] = << <<"a">>, <<":">> >>

----------------------------------------------------------------------------
(* Properties of the worker's progress *)

\* C33: with every executor call returning, every job that is pending in
\* the queue is eventually cancelled or has been taken by next_job and is,
\* as the job of the worker's latest result, in the history with the status
\* of that result: completed for a success, failed for a failure.
C33_PendingJobsFinish ==
    \A id \in 1..MaxJobs :
        ("pending" \in StatusesOf(id, jobs, history))
            ~> \/ "cancelled" \in StatusesOf(id, jobs, history)
               \/ /\ id \in Range(startLog)
                  /\ ret[Worker].id = id
                  /\ result.set
                  /\ StatusesOf(id, <<>>, history) =
                         {IF result.success THEN "completed" ELSE "failed"}

\* the worker has finished a failed job and then a later one
C33_Witness ==
    /\ Len(doneLog) >= 2
    /\ \E i \in 1..Len(history) :
          history[i].status = "failed" /\ history[i].id = doneLog[1]

----------------------------------------------------------------------------
(* Properties of the executor's callers *)

\* the requests inside executor.shutdown: a subprocess of it has run and
\* the call has not returned
InShutdown ==
    {i \in Requests : /\ req[i].pc = "handler"
                      /\ Route(req[i].path).handler = "trigger_shutdown"
                      /\ req[i].step >= 1}

\* C34: at most one executor invocation is in progress: the worker is
\* inside executor.execute, or one request is inside executor.shutdown,
\* never both and never two requests.
C34_ExecutorNotReentered ==
    Cardinality(InShutdown) + (IF wpc = "execute" THEN 1 ELSE 0) <= 1

----------------------------------------------------------------------------
(* Properties of the rate limiter's table *)

\* no check for ip is in progress
QuietIp(ip) == \A k \in Requests : chk[k].pc = "lock" => chk[k].ip # ip

\* every timestamp of ip has left the window
ExpiredIp(ip) == RetainWindow(EntryOf(ip), now) = <<>>

\* C35: an IP that has stopped sending requests, and whose timestamps have
\* all left the window, is eventually absent from the table for good.
C35_IdleIpEvicted ==
    \A ip \in IPs :
        <>[](QuietIp(ip) /\ ExpiredIp(ip)) => <>[](ip \notin DOMAIN limiter)

----------------------------------------------------------------------------
(* Properties of the readers of the queue *)

\* C36: no job id is in the live queue and in the history at once, and a
\* GET /webhook/queue response lists no job under both jobs and history.
C36_NeverInBoth ==
    /\ \A i \in 1..Len(jobs), k \in 1..Len(history) : jobs[i].id # history[k].id
    /\ (view.pc = "done" /\ view.op = "get_queue_status") =>
           Range(view.jobs) \cap Range(view.history) = {}

\* the job was pushed to the history and the trim has removed it
Evicted(id) ==
    /\ id \in Range(doneLog)
    /\ ~(call[Worker].pc = "history" /\ call[Worker].job_id = id)
    /\ \A k \in 1..Len(history) : history[k].id # id

\* C37: every job created and not evicted from the history is in the live
\* queue or in the history, and a get_job call made after the job's enqueue
\* that returns before its eviction returns the job.
C37_JobAlwaysFound ==
    /\ \A id \in 1..(nextId - 1) :
          \/ \E i \in 1..Len(jobs) : jobs[i].id = id
          \/ \E k \in 1..Len(history) : history[k].id = id
          \/ Evicted(id)
    /\ (view.pc = "done" /\ view.op = "get_job" /\ view.enqueued
          /\ ~Evicted(view.id)) =>
           /\ view.found # <<>>
           /\ view.found[1].id = view.id

\* get_job missed the job in the live queue, update_status moved it
\* meanwhile, and the call found it in the history
C37_Witness ==
    /\ view.pc = "done" /\ view.op = "get_job" /\ view.enqueued
    /\ view.found # <<>>
    /\ IsTerminal(view.found[1].status)
    /\ \E k \in 1..Len(history) : history[k].id = view.id
    /\ \E id \in 1..MaxJobs : Evicted(id)

----------------------------------------------------------------------------
(* Properties of the trigger fan-out *)

\* no job is pending or running
Drained == chain.pending = <<>> /\ chain.running = <<>>

\* C38: after the webhook requests have stopped, the queue eventually
\* drains and stays drained, whatever the trigger lists name.
C38_QueueDrains == <>[]Drained

----------------------------------------------------------------------------
(* Properties of the hourly roll-up's rows *)

\* C39: after every hourly roll-up, each row of metrics_hourly has as its
\* samples_count the number of raw samples stored for its agent in its hour.
C39_RollupCountsRaw ==
    [][aggregate_hourly =>
          \A h \in store'.hourly :
              h.samples_count =
                  Cardinality({r \in store'.raw :
                                  /\ r.agent_name = h.agent_name
                                  /\ hour_start(r.collected_at) = h.hour_start})]_vars

----------------------------------------------------------------------------
(* Properties of a rejected file mapping *)

\* the part of a file system that is not under the deployment root
Outside(fs) ==
    [dirs |-> {d \in fs.dirs : ~starts_with(d, dest_path)},
     files |-> {f \in fs.files : ~starts_with(f, dest_path)},
     links |-> {l \in fs.links : ~starts_with(l[1], dest_path)}]

\* the call returned at a mapping whose canonical target
\* validate_path_containment found outside the canonical base
RejectedForTraversal ==
    /\ fetch.pc = "idle"
    /\ fetch.result = "Err path traversal detected"
    /\ LET m == fetch.file_mappings[fetch.i]
           checked == validate_path_containment(fetch.disk, dest_path,
                                                dest_path \o m.to)
       IN ~checked.ok /\ checked.dst # <<>>

\* C40: when fetch_files has rejected a mapping for path traversal, the
\* directories, files and links outside the deployment root are those that
\* were there when the call began.
C40_RejectionLeavesOutside ==
    RejectedForTraversal => Outside(fetch.disk) = Outside(fetch.disk0)

====
